---- MODULE Spec2Model ----
(***************************************************************************)
(* A model of promptcraft: file chunking (file_chunker.py), file filtering  *)
(* (file_filter.py), the file browser and its selections (file_browser.py) *)
(* and prompt generation and the session run (main.py, models.py), all     *)
(* under src/promptcraft.                                                  *)
(*                                                                         *)
(* Text is modelled as a flat sequence of characters.  "\n" is the line    *)
(* terminator; every other element is one character or one lexeme of the   *)
(* file's language.  Lines are obtained from text, and text from lines, by *)
(* the same conversions the code uses (str.splitlines, file.readlines,     *)
(* '\n'.join, ''.join), so that line numbers and chunk contents are        *)
(* computed, not assumed.                                                  *)
(***************************************************************************)
EXTENDS Integers, Sequences, FiniteSets, TLC

VARIABLES
    path,        \* the file handed to the chunker: [stem, ext]
    content,     \* the text of that file on disk
    readable,    \* whether open()/read() of the file succeeds
    op,          \* the last operation called ("none" before any call)
    max_lines,   \* the block size passed to chunk_file
    chunks,      \* the list of CodeChunk returned by that call
    file_filter, \* the SmartFileFilter
    fs_entry,    \* the path handed to the filter, as the file system has it
    verdict,     \* the last result of should_include_file (<<>> before any call)
    detected,    \* the results of the calls of detect_file_type, in call order
    args,        \* the arguments of the last call of the other operations
    result,      \* what that call returned, or the exception it raised
    fs,          \* the file system under the browser's root: path -> entry
    cache,       \* EnhancedFileBrowser._metadata_cache: path -> FileMetadata
    run,         \* a run of run_session or of the menu loop: its position and
                 \* what it did so far
    manager      \* the EnhancedSessionManager: its _sessions_index, id -> metadata

\* The variables of the browser, of the prompt, of the session run and of the
\* session manager.
restVars == <<args, result, fs, cache, run, manager>>

vars == <<path, content, readable, op, max_lines, chunks,
          file_filter, fs_entry, verdict, detected, restVars>>

NL == "\n"

----------------------------------------------------------------------------
(* Sequences and text                                                      *)

Max(S) == CHOOSE x \in S : \A y \in S : y <= x

Min(S) == CHOOSE x \in S : \A y \in S : x <= y

MinOf(a, b) == IF a <= b THEN a ELSE b

\* Python's seq[a:b] for 0 <= a, with b clipped to the length (0-based, b exclusive).
Slice(s, a, b) ==
    LET hi == MinOf(b, Len(s))
    IN  IF a >= hi THEN <<>> ELSE SubSeq(s, a + 1, hi)

\* ''.join(ls)
RECURSIVE Concat(_)
Concat(ls) == IF ls = <<>> THEN <<>> ELSE Head(ls) \o Concat(Tail(ls))

\* '\n'.join(ls)
RECURSIVE JoinNL(_)
JoinNL(ls) ==
    IF ls = <<>> THEN <<>>
    ELSE IF Len(ls) = 1 THEN ls[1]
    ELSE ls[1] \o <<NL>> \o JoinNL(Tail(ls))

\* str.splitlines(): the lines without their terminators; a final terminator
\* opens no further line, and the empty text has no line.
SplitLines(s) ==
    LET F[i \in 0..Len(s)] ==
            IF i = 0 THEN [done |-> <<>>, cur |-> <<>>, open |-> FALSE]
            ELSE LET p == F[i - 1]
                 IN  IF s[i] = NL
                     THEN [done |-> Append(p.done, p.cur), cur |-> <<>>, open |-> FALSE]
                     ELSE [done |-> p.done, cur |-> Append(p.cur, s[i]), open |-> TRUE]
        r == F[Len(s)]
    IN  IF r.open THEN Append(r.done, r.cur) ELSE r.done

\* file.readlines(): the lines with their terminators kept.
ReadLines(s) ==
    LET F[i \in 0..Len(s)] ==
            IF i = 0 THEN [done |-> <<>>, cur |-> <<>>]
            ELSE LET p == F[i - 1]
                 IN  IF s[i] = NL
                     THEN [done |-> Append(p.done, Append(p.cur, NL)), cur |-> <<>>]
                     ELSE [done |-> p.done, cur |-> Append(p.cur, s[i])]
        r == F[Len(s)]
    IN  IF r.cur # <<>> THEN Append(r.done, r.cur) ELSE r.done

\* The elements of a set of integers in ascending order.
RECURSIVE Ascending(_)
Ascending(S) ==
    IF S = {} THEN <<>> ELSE <<Min(S)>> \o Ascending(S \ {Min(S)})

----------------------------------------------------------------------------
(* Strings                                                                 *)

UpperCase == "ABCDEFGHIJKLMNOPQRSTUVWXYZ"

LowerCase == "abcdefghijklmnopqrstuvwxyz"

LowerChar(c) ==
    IF \E i \in 1..Len(UpperCase) : SubSeq(UpperCase, i, i) = c
    THEN LET i == CHOOSE k \in 1..Len(UpperCase) : SubSeq(UpperCase, k, k) = c
         IN  SubSeq(LowerCase, i, i)
    ELSE c

\* str.lower()
RECURSIVE Lower(_)
Lower(str) ==
    IF str = "" THEN ""
    ELSE LowerChar(SubSeq(str, 1, 1)) \o Lower(SubSeq(str, 2, Len(str)))

\* str.startswith(prefix)
StartsWith(str, prefix) ==
    Len(prefix) <= Len(str) /\ SubSeq(str, 1, Len(prefix)) = prefix

\* str.endswith(suffix)
EndsWith(str, suffix) ==
    Len(suffix) <= Len(str) /\ SubSeq(str, Len(str) - Len(suffix) + 1, Len(str)) = suffix

\* sub in str
Contains(str, sub) ==
    \E i \in 1..Len(str) - Len(sub) + 1 : SubSeq(str, i, i + Len(sub) - 1) = sub

\* str.rfind(c) for one character c: its last 0-based index, -1 when absent
RFind(str, c) ==
    LET at == {i \in 1..Len(str) : SubSeq(str, i, i) = c}
    IN  IF at = {} THEN -1 ELSE Max(at) - 1

\* str.strip() of blanks
RECURSIVE StrStrip(_)
StrStrip(str) ==
    IF str # "" /\ SubSeq(str, 1, 1) = " " THEN StrStrip(SubSeq(str, 2, Len(str)))
    ELSE IF str # "" /\ SubSeq(str, Len(str), Len(str)) = " "
         THEN StrStrip(SubSeq(str, 1, Len(str) - 1))
    ELSE str

\* sep.join(parts)
RECURSIVE JoinWith(_, _)
JoinWith(sep, parts) ==
    IF parts = <<>> THEN ""
    ELSE IF Len(parts) = 1 THEN parts[1]
    ELSE parts[1] \o sep \o JoinWith(sep, Tail(parts))

----------------------------------------------------------------------------
(* CodeChunk                                                               *)

\* An identifier is a base word and a number; a name the code takes from the
\* source text (a function, a class) is the identifier declared on that line.
Ident(base, k) == <<base, k>>

None == Ident("None", 0)

CodeChunk(name, chunk_type, text, start_line, end_line, parent, signature) ==
    [name |-> name, chunk_type |-> chunk_type, content |-> text,
     start_line |-> start_line, end_line |-> end_line,
     parent |-> parent, signature |-> signature]

PyUnableToRead == <<"# Unable to read file">>

JsUnableToRead == <<"// Unable to read file">>

----------------------------------------------------------------------------
(* The structured (Python) chunker                                         *)
(*                                                                         *)
(* A Python source line is an indentation (">" per level) followed by one  *)
(* statement lexeme:                                                       *)
(*   "import"  an import statement                                         *)
(*   "def"     the header line of a function whose body is the indented    *)
(*             block that follows                                          *)
(*   "def1"    a function written on one line (def f(): pass)              *)
(*   "adef1"   an async function written on one line                       *)
(*   "class"   the header line of a class                                  *)
(*   "pass"    any simple statement                                        *)
(*   "?"       text that is no Python statement                            *)
(* A line with no lexeme is blank.                                         *)

PyIndent == ">"

PyStatements == {"import", "def", "def1", "adef1", "class", "pass"}

PyHeaders == {"def", "class"}

RECURSIVE IndentOf(_)
IndentOf(line) ==
    IF line # <<>> /\ Head(line) = PyIndent THEN 1 + IndentOf(Tail(line)) ELSE 0

Lexemes(line) == Slice(line, IndentOf(line), Len(line))

IsBlank(line) == Lexemes(line) = <<>>

NodeKind(lexeme) ==
    CASE lexeme = "import" -> "Import"
      [] lexeme \in {"def", "def1"} -> "FunctionDef"
      [] lexeme = "adef1" -> "AsyncFunctionDef"
      [] lexeme = "class" -> "ClassDef"
      [] OTHER -> "Pass"

\* Whether a statement line stands where Python allows it after the lines
\* before it: at the margin when it is the first statement, one level deeper
\* than a header it follows, and no deeper than any other statement it follows.
PyPlaced(before, line) ==
    LET stmts == {i \in 1..Len(before) : ~IsBlank(before[i])}
        prev == before[Max(stmts)]
    IN  IF stmts = {} THEN IndentOf(line) = 0
        ELSE IF Lexemes(prev)[1] \in PyHeaders THEN IndentOf(line) = IndentOf(prev) + 1
        ELSE IndentOf(line) <= IndentOf(prev)

\* ast.parse: the statements of the module with their line spans and parents,
\* or a failure when the text is not a Python module.
ast_parse(text) ==
    LET lines == SplitLines(text)
        n == Len(lines)
        stmts == {i \in 1..n : ~IsBlank(lines[i])}
        ind(i) == IndentOf(lines[i])
        lex(i) == Lexemes(lines[i])[1]
        header(i) == lex(i) \in PyHeaders
        wellFormed(i) == Len(Lexemes(lines[i])) = 1 /\ lex(i) \in PyStatements
        ok == /\ \A i \in stmts : wellFormed(i)
              /\ \A i \in stmts : PyPlaced(SubSeq(lines, 1, i - 1), lines[i])
              /\ stmts # {} => ~header(Max(stmts))
        inBlock(i, j) == j > i /\ \A k \in stmts : (i < k /\ k <= j) => ind(k) > ind(i)
        end(i) == IF header(i) THEN Max({j \in stmts : inBlock(i, j)}) ELSE i
        parent(i) ==
            IF ind(i) = 0 THEN 0
            ELSE Max({j \in stmts : j < i /\ ind(j) = ind(i) - 1})
        node(i) == [kind |-> NodeKind(lex(i)), name |-> Ident("id", i), lineno |-> i,
                    end_lineno |-> end(i), parent |-> parent(i), depth |-> ind(i)]
    IN  IF ok THEN [ok |-> TRUE, body |-> [i \in stmts |-> node(i)]]
        ELSE [ok |-> FALSE, body |-> <<>>]

\* ast.walk: breadth first from the module, the children of a node in body
\* order; the statements therefore come by depth and, within a depth, by line.
RECURSIVE WalkFrom(_, _, _)
WalkFrom(tree, d, left) ==
    IF left = {} THEN <<>>
    ELSE LET here == {i \in left : tree.body[i].depth = d}
         IN  [k \in 1..Cardinality(here) |-> tree.body[Ascending(here)[k]]]
             \o WalkFrom(tree, d + 1, left \ here)

ast_walk(tree) == WalkFrom(tree, 0, DOMAIN tree.body)

\* node.body of a class or function: its direct children, in source order.
NodeBody(tree, node) ==
    LET kids == {i \in DOMAIN tree.body : tree.body[i].parent = node.lineno}
    IN  [k \in 1..Cardinality(kids) |-> tree.body[Ascending(kids)[k]]]

Py_get_node_content(node, lines) ==
    LET start_line == node.lineno - 1
        end_line == node.end_lineno - 1
    IN  JoinNL(Slice(lines, start_line, end_line + 1))

Py_extract_function(node, lines, parent) ==
    CodeChunk(node.name,
              IF parent # None THEN "METHOD" ELSE "FUNCTION",
              Py_get_node_content(node, lines),
              node.lineno, node.end_lineno, parent,
              <<"def", node.name>>)

RECURSIVE Py_methods(_, _, _)
Py_methods(items, lines, parent) ==
    IF items = <<>> THEN <<>>
    ELSE (IF Head(items).kind = "FunctionDef"
          THEN <<Py_extract_function(Head(items), lines, parent)>>
          ELSE <<>>)
         \o Py_methods(Tail(items), lines, parent)

Py_extract_class(tree, node, lines) ==
    <<CodeChunk(node.name, "CLASS", Py_get_node_content(node, lines),
                node.lineno, node.end_lineno, None, <<"class", node.name>>)>>
    \o Py_methods(NodeBody(tree, node), lines, node.name)

\* The test of lines 90-91: some ClassDef holds the node in its body.
Py_is_method(tree, node) ==
    \E i \in DOMAIN tree.body :
        /\ tree.body[i].kind = "ClassDef"
        /\ node.parent = tree.body[i].lineno

\* The fallback rebuilt from the lines instead of the text as read.
Py_create_fallback_chunk_Mut(file_path, text, can_read) ==
    IF can_read
    THEN CodeChunk(Ident(file_path.stem, 0), "VARIABLE", JoinNL(SplitLines(text)),
                   1, Len(SplitLines(text)), None, <<>>)
    ELSE CodeChunk(Ident(file_path.stem, 0), "VARIABLE", PyUnableToRead,
                   1, 1, None, <<>>)

Py_create_fallback_chunk(file_path, text, can_read) ==
    IF can_read
    THEN CodeChunk(Ident(file_path.stem, 0), "VARIABLE", text,
                   1, Len(SplitLines(text)), None, <<>>)
    ELSE CodeChunk(Ident(file_path.stem, 0), "VARIABLE", PyUnableToRead,
                   1, 1, None, <<>>)

\* Lines 67-82: the 0-based lines of every Import node the walk meets.
Py_import_lines(tree) ==
    UNION {tree.body[i].lineno - 1 .. tree.body[i].end_lineno - 1 :
             i \in {j \in DOMAIN tree.body : tree.body[j].kind = "Import"}}

RECURSIVE Py_extract_nodes(_, _, _)
Py_extract_nodes(tree, nodes, lines) ==
    IF nodes = <<>> THEN <<>>
    ELSE LET node == Head(nodes)
         IN  (IF node.kind = "ClassDef" THEN Py_extract_class(tree, node, lines)
              ELSE IF node.kind = "FunctionDef" /\ ~Py_is_method(tree, node)
                   THEN <<Py_extract_function(node, lines, None)>>
              ELSE <<>>)
             \o Py_extract_nodes(tree, Tail(nodes), lines)

Py_parse_file(file_path, text, can_read) ==
    IF ~can_read THEN <<Py_create_fallback_chunk(file_path, text, can_read)>>
    ELSE LET tree == ast_parse(text)
             lines == SplitLines(text)
             import_lines == Py_import_lines(tree)
         IN  IF ~tree.ok THEN <<Py_create_fallback_chunk(file_path, text, can_read)>>
             ELSE (IF import_lines # {}
                   THEN <<CodeChunk(Ident("imports", 0), "IMPORT",
                                    JoinNL(Slice(lines, Min(import_lines),
                                                 Max(import_lines) + 1)),
                                    Min(import_lines) + 1, Max(import_lines) + 1,
                                    None, <<>>)>>
                   ELSE <<>>)
                  \o Py_extract_nodes(tree, ast_walk(tree), lines)

----------------------------------------------------------------------------
(* The heuristic (JavaScript/TypeScript) chunker                           *)
(*                                                                         *)
(* A JavaScript line is a sequence of characters.  The braces, the three   *)
(* quotes, the backslash and the blank are themselves; "x" is any other    *)
(* character; a declaration keyword with the text up to the place where    *)
(* the patterns of lines 238-303 look for "{" is one lexeme:               *)
(*   "import"       import ...                                             *)
(*   "export"       export, with the blank after it                        *)
(*   "function"     function name(args), a lower-case name                 *)
(*   "Function"     function Name(args), a capitalized name                *)
(*   "useFunction"  function useName(args)                                 *)
(*   "arrow"        const name = (args) =>                                 *)
(*   "FC"           const Name: React.FC =                                 *)
(*   "class"        class Name                                             *)
(*   "interface"    interface Name                                         *)
(*   "type"         type Name =                                            *)

DQ == "\""

SQ == "'"

\* the backtick
BQ == "bq"

BS == "\\"

SP == " "

JsQuotes == {DQ, SQ, BQ}

RECURSIVE LStrip(_)
LStrip(line) == IF line # <<>> /\ Head(line) = SP THEN LStrip(Tail(line)) ELSE line

RECURSIVE RStrip(_)
RStrip(line) ==
    IF line # <<>> /\ line[Len(line)] = SP THEN RStrip(SubSeq(line, 1, Len(line) - 1))
    ELSE line

\* str.strip()
Strip(line) == RStrip(LStrip(line))

\* (?:export\s+)? at the start of a pattern.
AfterExport(s) == IF s # <<>> /\ Head(s) = "export" THEN LStrip(Tail(s)) ELSE s

\* <one of heads>\s*\{ at the start of s
HeadThenBrace(s, heads) ==
    /\ s # <<>>
    /\ Head(s) \in heads
    /\ LStrip(Tail(s)) # <<>>
    /\ Head(LStrip(Tail(s))) = "{"

\* re.match(pattern, s) for the patterns of the chunker, s a stripped line.
ReMatch(pattern, s) ==
    CASE pattern = "import_pattern" ->
            s # <<>> /\ Head(s) \in {"import", "export"}
      [] pattern = "function_pattern" ->
            HeadThenBrace(AfterExport(s), {"function", "Function", "useFunction"})
      [] pattern = "arrow_pattern" -> HeadThenBrace(AfterExport(s), {"arrow"})
      [] pattern = "class_pattern" -> HeadThenBrace(AfterExport(s), {"class"})
      [] pattern = "component_pattern_1" ->
            \/ HeadThenBrace(AfterExport(s), {"Function"})
            \/ (AfterExport(s) # <<>> /\ Head(AfterExport(s)) = "FC")
      [] pattern = "component_pattern_2" ->
            AfterExport(s) # <<>> /\ Head(AfterExport(s)) = "FC"
      [] pattern = "hook_pattern" ->
            AfterExport(s) # <<>> /\ Head(AfterExport(s)) = "useFunction"
      [] pattern = "interface_pattern" -> HeadThenBrace(AfterExport(s), {"interface"})
      [] pattern = "type_pattern" ->
            AfterExport(s) # <<>> /\ Head(AfterExport(s)) = "type"
      [] OTHER -> FALSE

\* The scan of lines 347-373 from character j (0-based) of line i (0-based).
RECURSIVE ScanFrom(_, _, _, _, _, _)
ScanFrom(lines, i, j, brace_count, in_string, string_char) ==
    IF i >= Len(lines) THEN Len(lines)
    ELSE IF j >= Len(lines[i + 1]) THEN ScanFrom(lines, i + 1, 0, brace_count, in_string, string_char)
    ELSE LET line == lines[i + 1]
             char == line[j + 1]
             opens == ~in_string /\ char \in JsQuotes
             closes == /\ ~opens
                       /\ in_string
                       /\ char = string_char
                       /\ (j = 0 \/ line[j] # BS)
             in2 == IF opens THEN TRUE ELSE IF closes THEN FALSE ELSE in_string
             sc2 == IF opens THEN char ELSE IF closes THEN "None" ELSE string_char
         IN  IF ~in2 /\ char = "{"
             THEN ScanFrom(lines, i, j + 1, brace_count + 1, in2, sc2)
             ELSE IF ~in2 /\ char = "}"
             THEN IF brace_count - 1 = 0 THEN i + 1
                  ELSE ScanFrom(lines, i, j + 1, brace_count - 1, in2, sc2)
             ELSE ScanFrom(lines, i, j + 1, brace_count, in2, sc2)

Js_find_block_end(lines, start_idx) == ScanFrom(lines, start_idx, 0, 0, FALSE, "None")

RECURSIVE Js_extract_from(_, _, _, _)
Js_extract_from(lines, pattern, chunk_type, i) ==
    IF i >= Len(lines) THEN <<>>
    ELSE (IF ReMatch(pattern, Strip(lines[i + 1]))
          THEN LET start_line == i + 1
                   end_line == Js_find_block_end(lines, i)
                   content_lines == Slice(lines, i, end_line)
               IN  <<CodeChunk(Ident("id", i + 1), chunk_type, JoinNL(content_lines),
                               start_line, end_line, None, Strip(lines[i + 1]))>>
          ELSE <<>>)
         \o Js_extract_from(lines, pattern, chunk_type, i + 1)

Js_extract_by_pattern(lines, pattern, chunk_type) ==
    Js_extract_from(lines, pattern, chunk_type, 0)

\* The chunk, or <<>> for None.
Js_extract_imports(lines) ==
    LET import_lines == {i \in 0..Len(lines) - 1 :
                            ReMatch("import_pattern", Strip(lines[i + 1]))}
    IN  IF import_lines = {} THEN <<>>
        ELSE <<CodeChunk(Ident("imports", 0), "IMPORT",
                         JoinNL(Slice(lines, Min(import_lines), Max(import_lines) + 1)),
                         Min(import_lines) + 1, Max(import_lines) + 1, None, <<>>)>>

Js_extract_functions(lines) ==
    Js_extract_by_pattern(lines, "function_pattern", "FUNCTION")
    \o Js_extract_by_pattern(lines, "arrow_pattern", "FUNCTION")

Js_extract_classes(lines) == Js_extract_by_pattern(lines, "class_pattern", "CLASS")

Js_extract_components(lines) ==
    Js_extract_by_pattern(lines, "component_pattern_1", "COMPONENT")
    \o Js_extract_by_pattern(lines, "component_pattern_2", "COMPONENT")

Js_extract_hooks(lines) == Js_extract_by_pattern(lines, "hook_pattern", "HOOK")

Js_extract_interfaces_types(lines) ==
    Js_extract_by_pattern(lines, "interface_pattern", "INTERFACE")
    \o Js_extract_by_pattern(lines, "type_pattern", "TYPE")

Js_create_fallback_chunk(file_path, text, can_read) ==
    IF can_read
    THEN CodeChunk(Ident(file_path.stem, 0), "VARIABLE", text,
                   1, Len(SplitLines(text)), None, <<>>)
    ELSE CodeChunk(Ident(file_path.stem, 0), "VARIABLE", JsUnableToRead,
                   1, 1, None, <<>>)

Js_parse_file(file_path, text, can_read) ==
    IF ~can_read THEN <<Js_create_fallback_chunk(file_path, text, can_read)>>
    ELSE LET lines == SplitLines(text)
             found == Js_extract_imports(lines)
                      \o Js_extract_functions(lines)
                      \o Js_extract_classes(lines)
                      \o Js_extract_components(lines)
                      \o Js_extract_hooks(lines)
                      \o Js_extract_interfaces_types(lines)
         IN  IF found # <<>> THEN found
             ELSE <<Js_create_fallback_chunk(file_path, text, can_read)>>

----------------------------------------------------------------------------
(* SmartFileChunker                                                        *)

DefaultMaxLines == 100

\* range(0, n, step) for step >= 1
RECURSIVE Range(_, _, _)
Range(from, n, step) == IF from >= n THEN <<>> ELSE <<from>> \o Range(from + step, n, step)

\* The last block's end not clipped to the file's length.
chunk_by_lines_Mut(file_path, text, can_read, block) ==
    IF ~can_read \/ block = 0
    THEN <<CodeChunk(Ident(file_path.stem, 0), "VARIABLE", PyUnableToRead, 1, 1, None, <<>>)>>
    ELSE LET lines == ReadLines(text)
             starts == Range(0, Len(lines), block)
         IN  [k \in 1..Len(starts) |->
                LET i == starts[k]
                IN  CodeChunk(Ident(file_path.stem \o "_chunk_", (i \div block) + 1),
                              "VARIABLE", Concat(Slice(lines, i, i + block)),
                              i + 1, i + block, None, <<>>)]

chunk_by_lines(file_path, text, can_read, block) ==
    IF ~can_read \/ block = 0
    THEN <<CodeChunk(Ident(file_path.stem, 0), "VARIABLE", PyUnableToRead, 1, 1, None, <<>>)>>
    ELSE LET lines == ReadLines(text)
             starts == Range(0, Len(lines), block)
         IN  [k \in 1..Len(starts) |->
                LET i == starts[k]
                IN  CodeChunk(Ident(file_path.stem \o "_chunk_", (i \div block) + 1),
                              "VARIABLE", Concat(Slice(lines, i, i + block)),
                              i + 1, MinOf(i + block, Len(lines)), None, <<>>)]

chunk_file(file_path, text, can_read, block) ==
    LET extension == Lower(file_path.ext)
    IN  IF extension = ".py" THEN Py_parse_file(file_path, text, can_read)
        ELSE IF extension \in {".js", ".jsx", ".ts", ".tsx"}
             THEN Js_parse_file(file_path, text, can_read)
        ELSE chunk_by_lines(file_path, text, can_read, block)

----------------------------------------------------------------------------
(* FileTypeDetector                                                        *)
(*                                                                         *)
(* File names, suffixes, patterns and reasons are strings of characters.   *)

TYPE_MAPPINGS ==
    << [file_type |-> "SOURCE_CODE", extensions |->
          {
            ".py", ".js", ".ts", ".tsx", ".jsx", ".java", ".cpp", ".c", ".h",
            ".cs", ".php", ".rb", ".go", ".rs", ".swift", ".kt", ".scala",
            ".clj", ".hs", ".ml", ".r", ".m", ".mm", ".dart", ".vue",
            ".svelte" } ],
       [file_type |-> "CONFIG", extensions |->
          {
            ".json", ".yaml", ".yml", ".toml", ".ini", ".cfg", ".conf",
            ".env", ".properties", ".xml", ".plist", ".config" } ],
       [file_type |-> "DOCUMENTATION", extensions |->
          {
            ".md", ".rst", ".txt", ".adoc", ".org", ".tex" } ],
       [file_type |-> "TEST", extensions |->
          {
            ".test.js", ".test.ts", ".spec.js", ".spec.ts", "_test.py",
            "test_*.py" } ],
       [file_type |-> "BUILD", extensions |->
          {
            ".dockerfile", ".dockerignore", ".makefile" } ],
       [file_type |-> "BINARY", extensions |->
          {
            ".exe", ".dll", ".so", ".dylib", ".a", ".lib", ".bin", ".img",
            ".iso", ".dmg", ".pkg", ".deb", ".rpm", ".zip", ".tar", ".gz",
            ".bz2", ".xz", ".7z", ".rar", ".pdf", ".doc", ".docx", ".xls",
            ".xlsx", ".ppt", ".pptx", ".jpg", ".jpeg", ".png", ".gif",
            ".bmp", ".tiff", ".svg", ".mp3", ".mp4", ".avi", ".mov", ".wmv",
            ".flv", ".ttf", ".otf", ".woff", ".woff2", ".eot" } ] >>

SPECIAL_FILES ==
    << [file_type |-> "CONFIG", filenames |->
          {
            "package.json", "package-lock.json", "yarn.lock",
            "pnpm-lock.yaml", "requirements.txt", "pyproject.toml",
            "setup.py", "setup.cfg", "cargo.toml", "cargo.lock", "go.mod",
            "go.sum", "gemfile", "gemfile.lock", "composer.json",
            "composer.lock", "dockerfile", "docker-compose.yml",
            "docker-compose.yaml", "makefile", ".gitignore",
            ".gitattributes", ".editorconfig", "tsconfig.json",
            "jsconfig.json", ".eslintrc", ".prettierrc", "webpack.config.js",
            "vite.config.js", "rollup.config.js" } ],
       [file_type |-> "DOCUMENTATION", filenames |->
          {
            "readme.md", "readme.txt", "readme.rst", "readme",
            "changelog.md", "changelog.txt", "changelog", "license",
            "license.md", "license.txt", "contributing.md",
            "code_of_conduct.md" } ] >>

\* Path.name: the last component
PathName(file_path) == file_path.rel[Len(file_path.rel)]

\* Path.suffix: the name from its last dot on, when that dot is neither the
\* first nor the last character of the name.
PathSuffix(file_path) ==
    LET name == PathName(file_path)
        i == RFind(name, ".")
    IN  IF 0 < i /\ i < Len(name) - 1 THEN SubSeq(name, i + 1, Len(name)) ELSE ""

\* Path.parts
PathParts(file_path) == file_path.root \o file_path.rel

\* str(file_path.relative_to(root_path))
RelativeTo(file_path) == JoinWith("/", file_path.rel)

TestPatterns == {"test", "spec", "__test__"}

TestExtensions == {".py", ".js", ".ts", ".jsx", ".tsx"}

\* Lines 168-173: the first entry of the table, from entry k on, that holds the
\* extension or an element with a dot the file name ends with.
RECURSIVE ByExtension(_, _, _)
ByExtension(filename, extension, k) ==
    IF k > Len(TYPE_MAPPINGS) THEN "UNKNOWN"
    ELSE IF extension \in TYPE_MAPPINGS[k].extensions
         THEN TYPE_MAPPINGS[k].file_type
    ELSE IF \E ext \in TYPE_MAPPINGS[k].extensions :
                Contains(ext, ".") /\ EndsWith(filename, ext)
         THEN TYPE_MAPPINGS[k].file_type
    ELSE ByExtension(filename, extension, k + 1)

\* The extension table consulted before the special file names.
detect_file_type_Mut(file_path) ==
    LET filename == Lower(PathName(file_path))
        extension == Lower(PathSuffix(file_path))
        special == {k \in 1..Len(SPECIAL_FILES) : filename \in SPECIAL_FILES[k].filenames}
    IN  IF ByExtension(filename, extension, 1) # "UNKNOWN"
        THEN ByExtension(filename, extension, 1)
        ELSE IF special # {} THEN SPECIAL_FILES[Min(special)].file_type
        ELSE "UNKNOWN"

detect_file_type(file_path) ==
    LET filename == Lower(PathName(file_path))
        extension == Lower(PathSuffix(file_path))
        special == {k \in 1..Len(SPECIAL_FILES) : filename \in SPECIAL_FILES[k].filenames}
    IN  IF special # {} THEN SPECIAL_FILES[Min(special)].file_type
        ELSE IF /\ \E pattern \in TestPatterns : Contains(filename, pattern)
                /\ extension \in TestExtensions
             THEN "TEST"
        ELSE ByExtension(filename, extension, 1)

TextMimeTypes ==
    {"application/json", "application/xml", "application/yaml", "application/toml"}

\* mimetypes.guess_type answers from the host's type database: the answer is
\* part of the file's environment (mime_type, "None" when there is none).
is_text_file(file) ==
    LET file_type == detect_file_type(file.path)
    IN  IF file_type = "BINARY" THEN FALSE
        ELSE IF file.mime_type # "None"
             THEN StartsWith(file.mime_type, "text/") \/ file.mime_type \in TextMimeTypes
        ELSE file_type \in {"SOURCE_CODE", "CONFIG", "DOCUMENTATION", "TEST"}

----------------------------------------------------------------------------
(* GitIgnoreFilter                                                         *)

\* fnmatch.fnmatch for patterns of literal characters, * and ?.
RECURSIVE FnMatch(_, _)
FnMatch(name, pattern) ==
    IF pattern = "" THEN name = ""
    ELSE LET c == SubSeq(pattern, 1, 1)
             rest == SubSeq(pattern, 2, Len(pattern))
         IN  IF c = "*"
             THEN \E k \in 0..Len(name) : FnMatch(SubSeq(name, k + 1, Len(name)), rest)
             ELSE /\ name # ""
                  /\ c = "?" \/ c = SubSeq(name, 1, 1)
                  /\ FnMatch(SubSeq(name, 2, Len(name)), rest)

\* _load_gitignore_patterns: the stripped lines of <root>/.gitignore that are
\* neither empty nor comments; no pattern when the file is missing or unreadable.
RECURSIVE GitIgnorePatterns(_)
GitIgnorePatterns(lines) ==
    IF lines = <<>> THEN <<>>
    ELSE LET line == StrStrip(Head(lines))
         IN  (IF line # "" /\ ~StartsWith(line, "#") THEN <<line>> ELSE <<>>)
             \o GitIgnorePatterns(Tail(lines))

load_gitignore_patterns(gitignore) ==
    IF gitignore.exists /\ gitignore.readable THEN GitIgnorePatterns(gitignore.lines)
    ELSE <<>>

GitIgnore_should_ignore(patterns, file_path) ==
    LET relative_path == RelativeTo(file_path)
    IN  \E k \in 1..Len(patterns) :
            LET pattern == patterns[k]
            IN  IF EndsWith(pattern, "/")
                THEN \/ FnMatch(relative_path \o "/", pattern)
                     \/ FnMatch(relative_path, SubSeq(pattern, 1, Len(pattern) - 1))
                ELSE \/ FnMatch(relative_path, pattern)
                     \/ FnMatch(PathName(file_path), pattern)

----------------------------------------------------------------------------
(* SmartFileFilter                                                         *)

DEFAULT_IGNORE_PATTERNS ==
    <<
      "node_modules/", ".git/", "__pycache__/", ".venv/", "venv/", "env/",
      ".env/", "build/", "dist/", "target/", ".next/", ".nuxt/", "coverage/",
      ".coverage/", ".pytest_cache/", ".mypy_cache/", ".tox/", ".cache/",
      "tmp/", "temp/", ".vscode/", ".idea/", "*.swp", "*.swo", "*~",
      ".DS_Store", "thumbs.db", "desktop.ini", "*.pyc", "*.pyo", "*.pyd",
      "*.class", "*.o", "*.obj", "*.log", "*.tmp", "*.temp", "*.min.js",
      "*.min.css", "*.map", "*.bundle.js", "*.chunk.js", "*.tar.gz", "*.zip",
      "*.rar", "*.7z", "*.deb", "*.rpm", "*.dmg", "*.pkg", "*.msi", "*.jpg",
      "*.jpeg", "*.png", "*.gif", "*.bmp", "*.ico", "*.mp3", "*.mp4",
      "*.avi", "*.mov", "*.pdf" >>

\* No GitIgnoreFilter (use_gitignore = False).
NoGitIgnore == [patterns |-> <<>>, used |-> FALSE]

\* SmartFileFilter.__init__, with the size limit given in bytes.
SmartFileFilter(root_path, max_file_size_bytes, use_gitignore, gitignore, custom) ==
    [root_path |-> root_path,
     max_file_size_bytes |-> max_file_size_bytes,
     gitignore_filter |->
        IF use_gitignore
        THEN [patterns |-> load_gitignore_patterns(gitignore), used |-> TRUE]
        ELSE NoGitIgnore,
     ignore_patterns |-> DEFAULT_IGNORE_PATTERNS \o custom]

matches_ignore_pattern(self, file_path) ==
    LET relative_path == RelativeTo(file_path)
    IN  \E k \in 1..Len(self.ignore_patterns) :
            LET pattern == self.ignore_patterns[k]
            IN  IF EndsWith(pattern, "/")
                THEN \E i \in 1..Len(PathParts(file_path)) :
                        PathParts(file_path)[i] = SubSeq(pattern, 1, Len(pattern) - 1)
                ELSE \/ FnMatch(relative_path, pattern)
                     \/ FnMatch(PathName(file_path), pattern)

\* None
NoFileInfo == <<>>

\* get_file_info: <<>> for None, else the one FileInfo.
get_file_info(self, file) ==
    IF ~file.exists \/ ~file.is_file THEN NoFileInfo
    ELSE <<[path |-> file.path,
            relative_path |-> RelativeTo(file.path),
            size_bytes |-> file.size_bytes,
            file_type |-> detect_file_type(file.path),
            is_text |-> is_text_file(file),
            last_modified |-> file.last_modified]>>

TooLarge(size_bytes) == "file_too_large_" \o ToString(size_bytes) \o "_bytes"

\* The size check made before the check of the category.
should_include_file_MutOrder(self, file) ==
    LET file_info == get_file_info(self, file)
    IN  IF file_info = NoFileInfo THEN <<FALSE, "file_not_accessible">>
        ELSE IF file_info[1].size_bytes > self.max_file_size_bytes
             THEN <<FALSE, TooLarge(file_info[1].size_bytes)>>
        ELSE IF file_info[1].file_type = "BINARY" THEN <<FALSE, "binary_file">>
        ELSE IF /\ self.gitignore_filter.used
                /\ GitIgnore_should_ignore(self.gitignore_filter.patterns, file.path)
             THEN <<FALSE, "gitignore_pattern">>
        ELSE IF matches_ignore_pattern(self, file.path) THEN <<FALSE, "ignore_pattern">>
        ELSE IF ~file_info[1].is_text THEN <<FALSE, "not_text_file">>
        ELSE <<TRUE, "">>

\* A file of exactly the maximum size rejected.
should_include_file_MutLimit(self, file) ==
    LET file_info == get_file_info(self, file)
    IN  IF file_info = NoFileInfo THEN <<FALSE, "file_not_accessible">>
        ELSE IF file_info[1].file_type = "BINARY" THEN <<FALSE, "binary_file">>
        ELSE IF file_info[1].size_bytes >= self.max_file_size_bytes
             THEN <<FALSE, TooLarge(file_info[1].size_bytes)>>
        ELSE IF /\ self.gitignore_filter.used
                /\ GitIgnore_should_ignore(self.gitignore_filter.patterns, file.path)
             THEN <<FALSE, "gitignore_pattern">>
        ELSE IF matches_ignore_pattern(self, file.path) THEN <<FALSE, "ignore_pattern">>
        ELSE IF ~file_info[1].is_text THEN <<FALSE, "not_text_file">>
        ELSE <<TRUE, "">>

should_include_file(self, file) ==
    LET file_info == get_file_info(self, file)
    IN  IF file_info = NoFileInfo THEN <<FALSE, "file_not_accessible">>
        ELSE IF file_info[1].file_type = "BINARY" THEN <<FALSE, "binary_file">>
        ELSE IF file_info[1].size_bytes > self.max_file_size_bytes
             THEN <<FALSE, TooLarge(file_info[1].size_bytes)>>
        ELSE IF /\ self.gitignore_filter.used
                /\ GitIgnore_should_ignore(self.gitignore_filter.patterns, file.path)
             THEN <<FALSE, "gitignore_pattern">>
        ELSE IF matches_ignore_pattern(self, file.path) THEN <<FALSE, "ignore_pattern">>
        ELSE IF ~file_info[1].is_text THEN <<FALSE, "not_text_file">>
        ELSE <<TRUE, "">>

----------------------------------------------------------------------------
(* The files the chunkers are run on                                       *)

MaxPyLines == 4

\* A block nested d deep needs d header lines and a statement.
MaxPyIndent == MaxPyLines \div 2

MaxJsLines == 3

MaxTxtLines == 10

MaxBlock == 3

SeqsUpTo(S, n) == UNION {[1..k -> S] : k \in 0..n}

\* The text of a file with these lines.
Text(ls, terminated) ==
    IF ls = <<>> THEN <<>>
    ELSE JoinNL(ls) \o (IF terminated THEN <<NL>> ELSE <<>>)

Indented(d, lexeme) == [k \in 1..d |-> PyIndent] \o <<lexeme>>

\* Python lines: a statement at any level, a header where its block still
\* fits, and the blank line.
PyLines ==
    {Indented(d, lexeme) : d \in 0..MaxPyIndent, lexeme \in PyStatements \ PyHeaders}
    \cup {Indented(d, lexeme) : d \in 0..MaxPyIndent - 1, lexeme \in PyHeaders}
    \cup {<<>>}

\* Whether the last statement of these lines is a header.
PyEndsWithHeader(ls) ==
    LET stmts == {i \in 1..Len(ls) : ~IsBlank(ls[i])}
    IN  stmts # {} /\ Lexemes(ls[Max(stmts)])[1] \in PyHeaders

\* A line indented deeper than any block of the source.
PyOverIndented == Indented(MaxPyIndent + 1, "pass")

\* The sources of at most n lines in which every line stands where Python
\* allows it; the last header may still lack its block.
RECURSIVE PyPlacedSources(_)
PyPlacedSources(n) ==
    IF n = 0 THEN {<<>>}
    ELSE LET shorter == PyPlacedSources(n - 1)
         IN  shorter \cup
             UNION {{Append(ls, l) : l \in {x \in PyLines : IsBlank(x) \/ PyPlaced(ls, x)}} :
                      ls \in {s \in shorter : Len(s) = n - 1}}

\* Python sources: the well-placed ones, and those a last line breaks: text
\* that is no statement, or a statement indented where no block was opened.
\* (A block is indented by one unit: after a header, where a deeper line
\* opens the block, no over-indented line is appended.)
PySources ==
    PyPlacedSources(MaxPyLines)
    \cup {Append(ls, <<"?">>) : ls \in PyPlacedSources(MaxPyLines - 1)}
    \cup {Append(ls, PyOverIndented) :
            ls \in {s \in PyPlacedSources(MaxPyLines - 1) : ~PyEndsWithHeader(s)}}

JsLines ==
    { <<>>,
      <<"x">>,
      <<"}">>,
      <<"function", "{">>,
      <<"x", DQ, "{", DQ>>,
      <<SQ, BS, BS, SQ, "}">>,
      <<"x", BQ, BS, BQ, "}", BQ>>,
      <<"import">>,
      <<"export", "Function", SP, "{", "}">>,
      <<"type", "x">>,
      <<SP, "useFunction", "{">>,
      <<"arrow", "{", "}">>,
      <<"class", "{">>,
      <<"interface", "{", "}">>,
      <<"FC", "{">> }

\* The lines the longest sources are made of.
JsCoreLines ==
    { <<>>,
      <<"}">>,
      <<"function", "{">>,
      <<"x", DQ, "{", DQ>>,
      <<SQ, BS, BS, SQ, "}">>,
      <<"x", BQ, BS, BQ, "}", BQ>>,
      <<"import">>,
      <<"class", "{">> }

JsSources == SeqsUpTo(JsLines, MaxJsLines - 1) \cup [1..MaxJsLines -> JsCoreLines]

\* Text of up to MaxTxtLines lines, at most one of them empty.
TxtSources ==
    {[i \in 1..n |-> IF i = b THEN <<>> ELSE <<"x">>] : n \in 0..MaxTxtLines, b \in 0..MaxTxtLines}

StructuredExts == {".py", ".PY"}

HeuristicExts == {".ts"}

OtherExts == {".txt"}

FileExts == StructuredExts \cup HeuristicExts \cup OtherExts

\* The upper-case suffix is tried on the sources of up to two lines.
SourcesOf(ext) ==
    IF ext = ".PY" THEN {ls \in PySources : Len(ls) <= 2}
    ELSE IF ext \in StructuredExts THEN PySources
    ELSE IF ext \in HeuristicExts THEN JsSources
    ELSE TxtSources

----------------------------------------------------------------------------
(* The files and the filters the filter operations are run on              *)

MaxSizeBytes == 2

MaxCalls == 2

FileNames ==
    {"requirements.txt", "Requirements.TXT", "notes.txt", "main.py",
     "test_app.py", "inspect.js", "app.min.js", "app.exe", "latest.exe",
     "photo.jpg", "data.json", "debug.log", ".env", ".dockerignore",
     "Makefile", "x."}

\* Further names for the detector alone.
MoreFileNames ==
    {"Main.PY", "app.spec.ts", "contest.txt", "archive.tar.gz", ".gitignore",
     "README", "readme.md", ".py", ".config", ".test.js", "test_*.py",
     "util_test.py", "a.dockerfile", "Dockerfile", "noext", "spec", "lib.so",
     "x.unknown", "package.json", "conftest.tsx", ".exe", "weird.Env"}

RootPaths == {<<"/", "home", "proj">>, <<"/", "srv", "build">>}

Directories == {<<>>, <<"build">>}

MimeTypes == {"None", "text/plain", "application/json", "application/octet-stream"}

\* What <root>/.gitignore may be: missing, unreadable, or these lines.
GitIgnoreFiles ==
    {[exists |-> FALSE, readable |-> FALSE, lines |-> <<>>],
     [exists |-> TRUE, readable |-> FALSE, lines |-> <<>>],
     [exists |-> TRUE, readable |-> TRUE,
      lines |-> <<"# local", " *.txt ", "", "build/*">>]}

CustomIgnorePatterns == {<<>>, <<"*.json">>}

\* Paths of the file system under a root: missing, a directory, or a regular
\* file with a size and the type the host's database gives its name.
Files(root_path, names) ==
    LET Entry(dir, name, e, f, n, m) ==
            [path |-> [root |-> root_path, rel |-> Append(dir, name)],
             exists |-> e, is_file |-> f, size_bytes |-> n, mime_type |-> m,
             last_modified |-> 0]
    IN  {Entry(dir, name, FALSE, FALSE, 0, "None") : dir \in Directories, name \in names}
        \cup {Entry(dir, name, TRUE, FALSE, 0, "None") : dir \in Directories, name \in names}
        \cup {Entry(dir, name, TRUE, TRUE, n, m) :
                 dir \in Directories, name \in names, n \in 0..MaxSizeBytes, m \in MimeTypes}

\* No filter is in use.
NoFilterCall ==
    /\ file_filter = <<>>
    /\ fs_entry = <<>>
    /\ verdict = <<>>
    /\ detected = <<>>

\* No browser, prompt or session run is in use.
NoOtherCall ==
    /\ args = <<>>
    /\ result = <<>>
    /\ fs = <<>>
    /\ cache = <<>>
    /\ run = <<>>
    /\ manager = <<>>

\* No chunker is in use.
NoChunkerCall ==
    /\ path = <<>>
    /\ content = <<>>
    /\ readable = FALSE
    /\ max_lines = DefaultMaxLines
    /\ chunks = <<>>

----------------------------------------------------------------------------
(* The filter as a state machine: a filter is built over a root, a file of  *)
(* that root is classified and judged                                      *)

InitFilter ==
    /\ \E root_path \in RootPaths, limit \in 0..MaxSizeBytes - 1,
          use_gitignore \in BOOLEAN, gitignore \in GitIgnoreFiles,
          custom \in CustomIgnorePatterns :
          /\ ~use_gitignore => ~gitignore.exists
          /\ file_filter = SmartFileFilter(root_path, limit, use_gitignore, gitignore, custom)
          /\ fs_entry \in Files(root_path, FileNames)
    /\ verdict = <<>>
    /\ detected = <<>>
    /\ op = "none"
    /\ NoChunkerCall
    /\ NoOtherCall

\* SmartFileFilter.should_include_file(file_path)
ShouldIncludeFile ==
    /\ verdict' = should_include_file(file_filter, fs_entry)
    /\ op' = "should_include_file"
    /\ UNCHANGED <<file_filter, fs_entry, detected, path, content, readable, max_lines, chunks>>
    /\ UNCHANGED restVars

NextFilter == ShouldIncludeFile

SpecFilter == InitFilter /\ [][NextFilter]_vars

----------------------------------------------------------------------------
(* The detector as a state machine: a path is classified, several times    *)

InitDetector ==
    /\ \E root_path \in RootPaths :
          /\ fs_entry \in Files(root_path, FileNames \cup MoreFileNames)
          /\ ~fs_entry.exists
    /\ file_filter = <<>>
    /\ verdict = <<>>
    /\ detected = <<>>
    /\ op = "none"
    /\ NoChunkerCall
    /\ NoOtherCall

\* FileTypeDetector.detect_file_type(file_path)
DetectFileType ==
    /\ Len(detected) < MaxCalls
    /\ detected' = Append(detected, detect_file_type(fs_entry.path))
    /\ op' = "detect_file_type"
    /\ UNCHANGED <<file_filter, fs_entry, verdict, path, content, readable, max_lines, chunks>>
    /\ UNCHANGED restVars

NextDetector == DetectFileType

SpecDetector == InitDetector /\ [][NextDetector]_vars

----------------------------------------------------------------------------
(* The chunker as a state machine: a file is on disk, calls are made on it *)

InitChunker ==
    /\ \E ext \in FileExts : path = [stem |-> "mod", ext |-> ext]
    /\ readable \in BOOLEAN
    /\ \E ls \in SourcesOf(path.ext), terminated \in BOOLEAN :
          /\ path.ext \notin OtherExts => terminated
          /\ content = IF readable THEN Text(ls, terminated) ELSE <<>>
    /\ op = "none"
    /\ max_lines = DefaultMaxLines
    /\ chunks = <<>>
    /\ NoFilterCall
    /\ NoOtherCall

\* SmartFileChunker.chunk_file(file_path)
ChunkFile ==
    /\ op' = "chunk_file"
    /\ max_lines' = DefaultMaxLines
    /\ chunks' = chunk_file(path, content, readable, DefaultMaxLines)
    /\ UNCHANGED <<path, content, readable, file_filter, fs_entry, verdict, detected>>
    /\ UNCHANGED restVars

\* SmartFileChunker.chunk_file(file_path, max_lines); the argument is read by
\* the line strategy only.
ChunkFileBlocks ==
    /\ Lower(path.ext) \notin {".py", ".js", ".jsx", ".ts", ".tsx"}
    /\ \E block \in 1..MaxBlock :
          /\ max_lines' = block
          /\ chunks' = chunk_file(path, content, readable, block)
    /\ op' = "chunk_file"
    /\ UNCHANGED <<path, content, readable, file_filter, fs_entry, verdict, detected>>
    /\ UNCHANGED restVars

NextChunker == ChunkFile \/ ChunkFileBlocks

SpecChunker == InitChunker /\ [][NextChunker]_vars

----------------------------------------------------------------------------
(* Properties of the chunkers                                              *)

Strategy(file_path) ==
    IF Lower(file_path.ext) = ".py" THEN "structured"
    ELSE IF Lower(file_path.ext) \in {".js", ".jsx", ".ts", ".tsx"} THEN "heuristic"
    ELSE "line"

JsPatterns ==
    {"import_pattern", "function_pattern", "arrow_pattern", "class_pattern",
     "component_pattern_1", "component_pattern_2", "hook_pattern",
     "interface_pattern", "type_pattern"}

\* Whether the heuristic chunker finds any construct in the text.
JsFindsConstruct(text) ==
    \E i \in 1..Len(SplitLines(text)), pattern \in JsPatterns :
        ReMatch(pattern, Strip(SplitLines(text)[i]))

Called == op = "chunk_file"

\* C1: every chunk a chunker returns has 1 <= start_line <= end_line, for
\* every file content, the empty file included.
C1_LineBounds ==
    \A k \in 1..Len(chunks) :
        1 <= chunks[k].start_line /\ chunks[k].start_line <= chunks[k].end_line

\* C2: round trip: for every chunk returned for a readable file, the chunk's
\* content split into lines is exactly the source lines start_line..end_line.
C2_RoundTrip ==
    (Called /\ readable) =>
        \A k \in 1..Len(chunks) :
            SplitLines(chunks[k].content)
              = SubSeq(SplitLines(content), chunks[k].start_line, chunks[k].end_line)

IsFallback(chunk, file_path) ==
    /\ chunk.chunk_type = "VARIABLE"
    /\ chunk.name = Ident(file_path.stem, 0)

\* C3: parse_file of the structured and of the heuristic chunker always returns
\* a list: for a source that cannot be parsed, exactly one VARIABLE chunk named
\* after the file stem whose content is the whole file content; for a file that
\* cannot be read, exactly one VARIABLE placeholder chunk named after the stem.
C3_FallbackOnFailure ==
    (Called /\ Strategy(path) \in {"structured", "heuristic"}) =>
        /\ ~readable =>
              /\ Len(chunks) = 1
              /\ IsFallback(chunks[1], path)
              /\ chunks[1].content \in {PyUnableToRead, JsUnableToRead}
        /\ (readable /\ Strategy(path) = "structured" /\ ~ast_parse(content).ok) =>
              /\ Len(chunks) = 1
              /\ IsFallback(chunks[1], path)
              /\ chunks[1].content = content
        /\ (readable /\ Strategy(path) = "heuristic" /\ ~JsFindsConstruct(content)) =>
              /\ Len(chunks) = 1
              /\ IsFallback(chunks[1], path)
              /\ chunks[1].content = content

\* A Python source with a syntax error after its first line was chunked.
C3_Witness ==
    /\ Called
    /\ readable
    /\ Strategy(path) = "structured"
    /\ Len(SplitLines(content)) > 1
    /\ ~ast_parse(content).ok
    /\ Len(chunks) = 1
    /\ chunks[1].content = content

\* The statements of a parsed module that define a function, def or async def.
FunctionDefs(tree) ==
    {i \in DOMAIN tree.body : tree.body[i].kind \in {"FunctionDef", "AsyncFunctionDef"}}

ClassDefs(tree) == {i \in DOMAIN tree.body : tree.body[i].kind = "ClassDef"}

Imports(tree) == {i \in DOMAIN tree.body : tree.body[i].kind = "Import"}

\* The imports are top-level statements with no other statement between them.
OneImportBlock(tree) ==
    /\ Imports(tree) # {}
    /\ \A i \in Imports(tree) : tree.body[i].depth = 0
    /\ \A i \in DOMAIN tree.body :
          (Min(Imports(tree)) <= i /\ i <= Max(Imports(tree))) => i \in Imports(tree)

\* C7: a Python file with M top-level functions, one import block and no
\* classes gives exactly M + 1 chunks: the IMPORT chunk first, then one
\* FUNCTION chunk per top-level function, in source order.
C7_ImportThenFunctions ==
    LET tree == ast_parse(content)
        funcs == Ascending({i \in FunctionDefs(tree) : tree.body[i].depth = 0})
    IN  (/\ Called
         /\ readable
         /\ Strategy(path) = "structured"
         /\ tree.ok
         /\ ClassDefs(tree) = {}
         /\ OneImportBlock(tree)) =>
            /\ Len(chunks) = Len(funcs) + 1
            /\ chunks[1].chunk_type = "IMPORT"
            /\ \A k \in 1..Len(funcs) :
                  /\ chunks[k + 1].chunk_type = "FUNCTION"
                  /\ chunks[k + 1].start_line = funcs[k]

\* C8: a top-level class with K methods gives exactly K + 1 chunks: one CLASS
\* chunk with signature "class <Name>" immediately followed by K METHOD chunks
\* in body order, each with the class name as parent; no method of a class is
\* also emitted as a FUNCTION chunk.
C8_ClassThenMethods ==
    LET tree == ast_parse(content)
    IN  (Called /\ readable /\ Strategy(path) = "structured" /\ tree.ok) =>
            \A c \in {i \in ClassDefs(tree) : tree.body[i].depth = 0} :
                LET methods == Ascending({i \in FunctionDefs(tree) : tree.body[i].parent = c})
                    at == {k \in 1..Len(chunks) :
                              chunks[k].chunk_type = "CLASS" /\ chunks[k].start_line = c}
                    pos == Min(at)
                IN  /\ Cardinality(at) = 1
                    /\ chunks[pos].signature = <<"class", tree.body[c].name>>
                    /\ pos + Len(methods) <= Len(chunks)
                    /\ \A j \in 1..Len(methods) :
                          /\ chunks[pos + j].chunk_type = "METHOD"
                          /\ chunks[pos + j].start_line = methods[j]
                          /\ chunks[pos + j].parent = tree.body[c].name
                    /\ Cardinality({k \in 1..Len(chunks) :
                                       chunks[k].parent = tree.body[c].name}) = Len(methods)
                    /\ \A k \in 1..Len(chunks) :
                          chunks[k].chunk_type = "FUNCTION" =>
                              \A j \in 1..Len(methods) : chunks[k].start_line # methods[j]

\* ceil(a / b)
CeilDiv(a, b) == (a + b - 1) \div b

\* C9: a file that is neither Python nor JavaScript/TypeScript, with L lines
\* and block size N, gives chunks named <stem>_chunk_k for k = 1, 2, ..., chunk
\* k covering lines (k-1)N+1 .. min(kN, L); the chunks are contiguous, do not
\* overlap and together cover lines 1..L.
C9_LineBlocks ==
    LET lines == ReadLines(content)
        L == Len(lines)
        N == max_lines
    IN  (Called /\ readable /\ Strategy(path) = "line") =>
            /\ Len(chunks) = CeilDiv(L, N)
            /\ \A k \in 1..Len(chunks) :
                  /\ chunks[k].name = Ident(path.stem \o "_chunk_", k)
                  /\ chunks[k].chunk_type = "VARIABLE"
                  /\ chunks[k].start_line = (k - 1) * N + 1
                  /\ chunks[k].end_line = MinOf(k * N, L)
                  /\ chunks[k].content
                       = Concat(SubSeq(lines, chunks[k].start_line, chunks[k].end_line))
            /\ \A k \in 1..Len(chunks) - 1 : chunks[k + 1].start_line = chunks[k].end_line + 1
            /\ Len(chunks) > 0 => chunks[1].start_line = 1 /\ chunks[Len(chunks)].end_line = L

\* A ten-line file cut in blocks of three: three full chunks and a last chunk
\* of one line.
C9_Witness ==
    /\ Called
    /\ readable
    /\ Strategy(path) = "line"
    /\ Len(ReadLines(content)) = 10
    /\ max_lines = 3
    /\ Len(chunks) = 4
    /\ chunks[4].start_line = 10
    /\ chunks[4].end_line = 10

\* The end of a block as JavaScript reads it: inside a string literal a
\* backslash escapes the character (or the line break) after it, the literal
\* ends at the next unescaped occurrence of its quote, and only braces outside
\* literals count.  ok is FALSE when a " or ' literal is left open at the end
\* of its line, a literal is open at the end of the text, or a } has no {.
RECURSIVE LexFrom(_, _, _, _, _)
LexFrom(lines, i, j, depth, quote) ==
    IF i >= Len(lines) THEN [ok |-> quote = "None", closed |-> FALSE, end |-> Len(lines)]
    ELSE IF j >= Len(lines[i + 1])
         THEN IF quote \in {DQ, SQ} THEN [ok |-> FALSE, closed |-> FALSE, end |-> i + 1]
              ELSE LexFrom(lines, i + 1, 0, depth, quote)
    ELSE LET line == lines[i + 1]
             char == line[j + 1]
         IN  IF quote # "None"
             THEN IF char = BS
                  THEN IF j + 1 < Len(line) THEN LexFrom(lines, i, j + 2, depth, quote)
                       ELSE LexFrom(lines, i + 1, 0, depth, quote)
                  ELSE IF char = quote THEN LexFrom(lines, i, j + 1, depth, "None")
                  ELSE LexFrom(lines, i, j + 1, depth, quote)
             ELSE IF char \in JsQuotes THEN LexFrom(lines, i, j + 1, depth, char)
             ELSE IF char = "{" THEN LexFrom(lines, i, j + 1, depth + 1, quote)
             ELSE IF char = "}"
                  THEN IF depth = 0 THEN [ok |-> FALSE, closed |-> FALSE, end |-> i + 1]
                       ELSE IF depth = 1 THEN [ok |-> TRUE, closed |-> TRUE, end |-> i + 1]
                       ELSE LexFrom(lines, i, j + 1, depth - 1, quote)
             ELSE LexFrom(lines, i, j + 1, depth, quote)

RealBlockEnd(lines, start_idx) == LexFrom(lines, start_idx, 0, 0, "None")

\* C10: the brace scanner never counts a brace inside a string literal, with
\* backslash escapes honoured, so the block of a function or class whose
\* literals are well formed ends exactly at the line of its real closing brace.
C10_BlockEndsAtRealBrace ==
    (Called /\ readable /\ Strategy(path) = "heuristic") =>
        \A k \in 1..Len(chunks) :
            LET real == RealBlockEnd(SplitLines(content), chunks[k].start_line - 1)
            IN  (chunks[k].chunk_type \in {"FUNCTION", "CLASS"} /\ real.ok /\ real.closed)
                    => chunks[k].end_line = real.end

----------------------------------------------------------------------------
(* Properties of the filter                                                *)

Judged == verdict # <<>>

Accessible == fs_entry.exists /\ fs_entry.is_file

\* The checks of should_include_file in the order the specification gives
\* them, each with the reason it reports.
InclusionChecks ==
    << [fails |-> ~Accessible, reason |-> "file_not_accessible"],
       [fails |-> detect_file_type(fs_entry.path) = "BINARY", reason |-> "binary_file"],
       [fails |-> fs_entry.size_bytes > file_filter.max_file_size_bytes,
        reason |-> TooLarge(fs_entry.size_bytes)],
       [fails |-> /\ file_filter.gitignore_filter.used
                  /\ GitIgnore_should_ignore(file_filter.gitignore_filter.patterns,
                                             fs_entry.path),
        reason |-> "gitignore_pattern"],
       [fails |-> matches_ignore_pattern(file_filter, fs_entry.path),
        reason |-> "ignore_pattern"],
       [fails |-> ~is_text_file(fs_entry), reason |-> "not_text_file"] >>

\* C4: should_include_file runs its checks in the order not accessible, binary
\* category, too large, .gitignore match, ignore-pattern match, not text; it
\* returns (False, reason of the first check that fails) and (True, "") only
\* when every check passes; an existing BINARY file always gets "binary_file",
\* whatever its size and whatever patterns it matches.
C4_FirstFailingCheck ==
    Judged =>
        LET checks == InclusionChecks
            failing == {k \in 1..Len(checks) : checks[k].fails}
        IN  /\ failing = {} => verdict = <<TRUE, "">>
            /\ failing # {} => verdict = <<FALSE, checks[Min(failing)].reason>>
            /\ (Accessible /\ detect_file_type(fs_entry.path) = "BINARY")
                  => verdict = <<FALSE, "binary_file">>

\* A BINARY file that is also too large and matches an ignore pattern was
\* judged, and the reason is that of the category.
C4_Witness ==
    /\ Judged
    /\ Accessible
    /\ detect_file_type(fs_entry.path) = "BINARY"
    /\ fs_entry.size_bytes > file_filter.max_file_size_bytes
    /\ matches_ignore_pattern(file_filter, fs_entry.path)
    /\ verdict = <<FALSE, "binary_file">>

\* The reason begins with "file_too_large_" and carries the byte count.
SaysTooLarge(reason, size_bytes) ==
    /\ StartsWith(reason, "file_too_large_")
    /\ Contains(reason, ToString(size_bytes))

\* C5 as stated: every accessible regular file larger than the filter's
\* maximum size is refused with a reason that begins with "file_too_large_"
\* and carries the byte count; a file of exactly the maximum size is not
\* refused for its size.
C5_EveryLargeFileTooLarge ==
    (Judged /\ Accessible) =>
        /\ fs_entry.size_bytes > file_filter.max_file_size_bytes =>
              /\ verdict[1] = FALSE
              /\ SaysTooLarge(verdict[2], fs_entry.size_bytes)
        /\ fs_entry.size_bytes = file_filter.max_file_size_bytes =>
              ~StartsWith(verdict[2], "file_too_large_")

\* C5: every accessible regular file whose category is not BINARY and that is
\* larger than the filter's maximum size is refused with a reason that begins
\* with "file_too_large_" and carries the byte count; a file of exactly the
\* maximum size is not refused for its size.
C5_LargeFileTooLarge ==
    (Judged /\ Accessible) =>
        /\ (/\ fs_entry.size_bytes > file_filter.max_file_size_bytes
            /\ detect_file_type(fs_entry.path) # "BINARY") =>
              /\ verdict[1] = FALSE
              /\ SaysTooLarge(verdict[2], fs_entry.size_bytes)
        /\ fs_entry.size_bytes = file_filter.max_file_size_bytes =>
              ~StartsWith(verdict[2], "file_too_large_")

\* A file that is not BINARY, one byte larger than the maximum, was refused for
\* its size.
C5_Witness ==
    /\ Judged
    /\ Accessible
    /\ detect_file_type(fs_entry.path) # "BINARY"
    /\ fs_entry.size_bytes = file_filter.max_file_size_bytes + 1
    /\ verdict = <<FALSE, TooLarge(fs_entry.size_bytes)>>

\* The lookup order of the specification, with the rule for step (c) given:
\* (a) special file name, (b) test name with a source extension, (c), and
\* UNKNOWN when (c) finds no category.
LookupOrder(file_path, categories) ==
    LET filename == Lower(PathName(file_path))
        extension == Lower(PathSuffix(file_path))
        special == {k \in 1..Len(SPECIAL_FILES) : filename \in SPECIAL_FILES[k].filenames}
    IN  IF special # {} THEN SPECIAL_FILES[Min(special)].file_type
        ELSE IF /\ \E pattern \in TestPatterns : Contains(filename, pattern)
                /\ extension \in TestExtensions
             THEN "TEST"
        ELSE IF categories # {} THEN TYPE_MAPPINGS[Min(categories)].file_type
        ELSE "UNKNOWN"

\* The categories whose extension set contains the file's extension.
HoldingExtension(file_path) ==
    {k \in 1..Len(TYPE_MAPPINGS) :
        Lower(PathSuffix(file_path)) \in TYPE_MAPPINGS[k].extensions}

\* The categories whose extension set contains the file's extension or an
\* entry with a dot that the lower-cased file name ends with.
HoldingExtensionOrEnding(file_path) ==
    {k \in 1..Len(TYPE_MAPPINGS) :
        \/ Lower(PathSuffix(file_path)) \in TYPE_MAPPINGS[k].extensions
        \/ \E ext \in TYPE_MAPPINGS[k].extensions :
              Contains(ext, ".") /\ EndsWith(Lower(PathName(file_path)), ext)}

\* C6 as stated: detect_file_type gives (a) the category of a special file
\* name, else (b) TEST for a test name with a source extension, else (c) the
\* first category in table order whose extension set contains the file's
\* extension, else (d) UNKNOWN; two calls with the same path agree.
C6_LookupByExtension ==
    \A k \in 1..Len(detected) :
        /\ detected[k] = LookupOrder(fs_entry.path, HoldingExtension(fs_entry.path))
        /\ detected[k] = detected[1]

\* C6: detect_file_type gives (a) the category of a special file name, else
\* (b) TEST for a test name with a source extension, else (c) the first
\* category in table order whose extension set contains the file's extension
\* or an entry with a dot that the lower-cased file name ends with, else (d)
\* UNKNOWN; two calls with the same path agree.
C6_LookupByExtensionOrEnding ==
    \A k \in 1..Len(detected) :
        /\ detected[k] = LookupOrder(fs_entry.path, HoldingExtensionOrEnding(fs_entry.path))
        /\ detected[k] = detected[1]

\* A dot-file named like an entry of the CONFIG extensions, which has no
\* extension of its own, was classified twice.
C6_Witness ==
    /\ Len(detected) = 2
    /\ PathSuffix(fs_entry.path) = ""
    /\ HoldingExtensionOrEnding(fs_entry.path) # {}
    /\ detected[1] = "CONFIG"
    /\ detected[2] = "CONFIG"

----------------------------------------------------------------------------
(* LineRange (file_browser.py)                                             *)

\* An exception that leaves a call: its class and its message.
Raise(exception, message) == [raised |-> exception, message |-> message]

IsRaised(value) == "raised" \in DOMAIN value

\* The check of the end left out.
LineRange_Mut(start, end) ==
    IF start < 1 THEN Raise("ValueError", "Line numbers must start from 1")
    ELSE [start |-> start, end |-> end]

\* LineRange(start, end): the dataclass constructor with __post_init__.
LineRange(start, end) ==
    IF start < 1 THEN Raise("ValueError", "Line numbers must start from 1")
    ELSE IF end < start THEN Raise("ValueError", "End line must be >= start line")
    ELSE [start |-> start, end |-> end]

MaxLineNo == 9

\* Line numbers handed to a constructor or a selection: from below 1 on.
LineNumbers == -1..MaxLineNo

InitLineRange ==
    /\ args \in LineNumbers \X LineNumbers
    /\ result = <<>>
    /\ fs = <<>>
    /\ cache = <<>>
    /\ run = <<>>
    /\ manager = <<>>
    /\ op = "none"
    /\ NoChunkerCall
    /\ NoFilterCall

\* LineRange(start, end)
NewLineRange ==
    /\ result' = LineRange(args[1], args[2])
    /\ op' = "LineRange"
    /\ UNCHANGED <<args, fs, cache, run, manager>>
    /\ UNCHANGED <<path, content, readable, max_lines, chunks>>
    /\ UNCHANGED <<file_filter, fs_entry, verdict, detected>>

NextLineRange == NewLineRange

SpecLineRange == InitLineRange /\ [][NextLineRange]_vars

\* C11: constructing LineRange(start, end) fails exactly when start < 1 or
\* end < start, and succeeds otherwise, so that every LineRange that exists
\* satisfies 1 <= start <= end.
C11_LineRangeValid ==
    op = "LineRange" =>
        /\ IsRaised(result) <=> (args[1] < 1 \/ args[2] < args[1])
        /\ ~IsRaised(result) =>
              /\ result = [start |-> args[1], end |-> args[2]]
              /\ 1 <= result.start
              /\ result.start <= result.end

\* LineRange(5, 3) was tried and failed.
C11_Witness ==
    /\ op = "LineRange"
    /\ args = <<5, 3>>
    /\ IsRaised(result)

----------------------------------------------------------------------------
(* FileMetadata, FileSelection and EnhancedFileBrowser (file_browser.py)   *)
(*                                                                         *)
(* A file of the browser's file system is an entry of the filter's file    *)
(* system with what a read of it gives: whether open() succeeds, the       *)
(* codecs under which its bytes decode, and the decoded text.              *)

\* Path.stem
PathStem(file_path) ==
    LET name == PathName(file_path)
    IN  SubSeq(name, 1, Len(name) - Len(PathSuffix(file_path)))

\* str(file_path)
PathStr(file_path) == "/" \o JoinWith("/", Tail(file_path.root) \o file_path.rel)

\* The path as the chunkers take it.
ChunkerPath(file_path) == [stem |-> PathStem(file_path), ext |-> PathSuffix(file_path)]

SizeUnits == <<"B", "KB", "MB", "GB">>

\* f"{size_bytes:.1f}" of size_bytes / d: tenths, rounded half to even.
Tenths(n, d) ==
    LET q == (10 * n) \div d
        r == (10 * n) % d
    IN  IF 2 * r > d \/ (2 * r = d /\ q % 2 = 1) THEN q + 1 ELSE q

\* EnhancedFileBrowser._format_file_size
format_file_size(size_bytes) ==
    LET F[k \in 1..5] == IF k = 5 \/ size_bytes < 1024 ^ k THEN k ELSE F[k + 1]
        k == F[1]
        t == Tenths(size_bytes, 1024 ^ (k - 1))
    IN  ToString(t \div 10) \o "." \o ToString(t % 10) \o " "
           \o (IF k = 5 THEN "TB" ELSE SizeUnits[k])

\* EnhancedFileBrowser.__init__: the filter is built with the size limit in
\* megabytes and with the defaults of SmartFileFilter; the root has no
\* .gitignore.
EnhancedFileBrowser(root_path, max_preview_lines, max_file_size_mb) ==
    [root_path |-> root_path,
     max_preview_lines |-> max_preview_lines,
     max_file_size_mb |-> max_file_size_mb,
     file_filter |-> SmartFileFilter(root_path, max_file_size_mb * 1024 * 1024, TRUE,
                                     [exists |-> FALSE, readable |-> FALSE, lines |-> <<>>],
                                     <<>>)]

\* None of get_file_metadata; a FileMetadata is returned as <<metadata>>.
NoMetadata == <<>>

\* The codecs tried after utf-8, in order.
FallbackEncodings == <<"latin-1", "cp1252", "utf-16">>

MoreLines(remaining) == <<NL, "... (" \o ToString(remaining) \o " more lines)">>

\* Lines 147-185: line_count, encoding and preview of a text file, and the two
\* flags as the read leaves them.
ReadForMetadata(self, file, is_binary, is_text) ==
    LET unread == [line_count |-> <<>>, encoding |-> <<>>, preview |-> <<>>,
                   is_binary |-> is_binary, is_text |-> is_text]
        lines == ReadLines(file.text)
        preview == Concat(Slice(lines, 0, self.max_preview_lines))
        usable == {k \in 1..Len(FallbackEncodings) : FallbackEncodings[k] \in file.encodings}
    IN  IF ~(is_text /\ ~is_binary) THEN unread
        ELSE IF ~file.readable THEN unread
        ELSE IF "utf-8" \in file.encodings
             THEN [unread EXCEPT
                      !.line_count = <<Len(lines)>>,
                      !.encoding = <<"utf-8">>,
                      !.preview =
                          <<IF Len(lines) > self.max_preview_lines
                            THEN preview \o MoreLines(Len(lines) - self.max_preview_lines)
                            ELSE preview>>]
        ELSE IF usable = {}
             THEN [unread EXCEPT !.is_binary = TRUE, !.is_text = FALSE]
        ELSE [unread EXCEPT
                 !.line_count = <<Len(lines)>>,
                 !.encoding = <<FallbackEncodings[Min(usable)]>>,
                 !.preview = <<preview>>]

\* The cache with one entry written.
CachePut(cached, cache_key, metadata) ==
    [k \in DOMAIN cached \cup {cache_key} |->
        IF k = cache_key THEN metadata ELSE cached[k]]

\* Lines 188-209: the FileMetadata built from the file's info and what the
\* read left, chunks included when asked for.
FileMetadata(file, file_info, read, include_chunks) ==
    [path |-> file.path,
     relative_path |-> RelativeTo(file.path),
     size_bytes |-> file.size_bytes,
     size_human |-> format_file_size(file.size_bytes),
     last_modified |-> file.last_modified,
     file_type |-> file_info.file_type,
     mime_type |-> file.mime_type,
     is_binary |-> read.is_binary,
     is_text |-> read.is_text,
     line_count |-> read.line_count,
     encoding |-> read.encoding,
     preview |-> read.preview,
     chunks |->
         IF include_chunks /\ read.is_text /\ ~read.is_binary
         THEN chunk_file(ChunkerPath(file.path), file.text,
                         file.readable /\ "utf-8" \in file.encodings, DefaultMaxLines)
         ELSE <<>>]

\* ReturnMetadata with the test of line 213 left out: every lookup is cached.
ReturnMetadata_Mut(cached, cache_key, metadata, include_chunks) ==
    [value |-> <<metadata>>, cache |-> CachePut(cached, cache_key, metadata)]

\* Lines 211-216: the metadata is cached unless chunks were asked for, and
\* returned.
ReturnMetadata(cached, cache_key, metadata, include_chunks) ==
    [value |-> <<metadata>>,
     cache |-> IF include_chunks THEN cached ELSE CachePut(cached, cache_key, metadata)]

\* Lines 133-216: from the basic file info on.
MetadataFromInfo(self, cached, file, include_chunks, file_info) ==
    IF file_info = NoFileInfo THEN [value |-> NoMetadata, cache |-> cached]
    ELSE ReturnMetadata(cached, PathStr(file.path),
                        FileMetadata(file, file_info[1],
                                     ReadForMetadata(self, file,
                                                     file_info[1].file_type = "BINARY",
                                                     file_info[1].is_text),
                                     include_chunks),
                        include_chunks)

\* EnhancedFileBrowser.get_file_metadata(file_path, include_chunks): what it
\* returns and the cache it leaves.
get_file_metadata(self, cached, file, include_chunks) ==
    IF PathStr(file.path) \in DOMAIN cached /\ ~include_chunks
    THEN [value |-> <<cached[PathStr(file.path)]>>, cache |-> cached]
    ELSE IF ~file.exists \/ ~file.is_file THEN [value |-> NoMetadata, cache |-> cached]
    ELSE MetadataFromInfo(self, cached, file, include_chunks,
                          get_file_info(self.file_filter, file))

\* FileSelection(file_info, line_range, selected_chunks, include_whole_file);
\* line_range is <<>> for None.
FileSelection(file_info, line_range, selected_chunks, include_whole_file) ==
    [file_info |-> file_info, line_range |-> line_range,
     selected_chunks |-> selected_chunks, include_whole_file |-> include_whole_file]

\* None of the selection builders; a FileSelection is returned as <<selection>>.
NoSelection == <<>>

\* Lines 340-354: the selection made of the metadata that was looked up.
SelectLines(looked, line_range, end_line) ==
    [value |->
        IF looked.value = NoMetadata THEN NoSelection
        ELSE IF IsRaised(line_range) THEN NoSelection
        ELSE IF /\ looked.value[1].line_count # <<>>
                /\ looked.value[1].line_count[1] # 0
                /\ end_line > looked.value[1].line_count[1]
             THEN NoSelection
        ELSE <<FileSelection(looked.value[1], <<line_range>>, <<>>, FALSE)>>,
     cache |-> looked.cache]

\* EnhancedFileBrowser.create_line_range_selection(file_path, start_line, end_line)
create_line_range_selection(self, cached, file, start_line, end_line) ==
    SelectLines(get_file_metadata(self, cached, file, FALSE),
                LineRange(start_line, end_line), end_line)

----------------------------------------------------------------------------
(* The browser as a state machine: files are looked up, selected by line   *)
(* range, written and removed                                              *)

MaxPreviewLines == 2

BrowserRoot == <<"/", "home", "proj">>

BrowserNames == {"main.py", "logo.png"}

BrowserPaths == {[root |-> BrowserRoot, rel |-> <<name>>] : name \in BrowserNames}

\* The browser, built with the default size limit of one megabyte.
Browser == EnhancedFileBrowser(BrowserRoot, MaxPreviewLines, 1)

AllEncodings == {"utf-8", "latin-1", "cp1252", "utf-16"}

\* Every byte sequence decodes as latin-1.
NotUtf8 == {"latin-1", "cp1252"}

\* A source of n import lines.
ImportLines(n) == Text([i \in 1..n |-> <<"import">>], TRUE)

BrowserEntry(file_path, e, f, text, encodings, can_open, m) ==
    [path |-> file_path, exists |-> e, is_file |-> f, size_bytes |-> Len(text),
     mime_type |-> m, last_modified |-> 0,
     text |-> text, encodings |-> encodings, readable |-> can_open]

MissingEntry(file_path) == BrowserEntry(file_path, FALSE, FALSE, <<>>, {}, FALSE, "None")

\* What a path of the browser may be.  The source file is missing, a
\* directory, or a regular file: an empty one, one of a single line, one
\* longer than the preview, one that is not utf-8 and one that cannot be
\* opened.  The image is a regular file until it is removed.
EntriesOf(file_path) ==
    IF PathSuffix(file_path) = ".py"
    THEN {MissingEntry(file_path),
          BrowserEntry(file_path, TRUE, FALSE, <<>>, {}, FALSE, "text/x-python"),
          BrowserEntry(file_path, TRUE, TRUE, ImportLines(1), AllEncodings, FALSE, "text/x-python"),
          BrowserEntry(file_path, TRUE, TRUE, ImportLines(MaxPreviewLines + 1), NotUtf8, TRUE,
                       "text/x-python")}
         \cup {BrowserEntry(file_path, TRUE, TRUE, ImportLines(n), AllEncodings, TRUE,
                            "text/x-python") : n \in {0, 1, MaxPreviewLines + 1}}
    ELSE {BrowserEntry(file_path, TRUE, TRUE, <<"x", "y">>, NotUtf8, TRUE, "image/png")}

\* The ranges a selection is asked for: one that starts below 1, one that
\* ends before it starts, and ranges that end within and beyond the files.
SelectionRanges ==
    {<<0, 1>>, <<MaxPreviewLines + 1, 1>>, <<1, 1>>, <<1, MaxPreviewLines + 1>>,
     <<1, MaxPreviewLines + 2>>, <<MaxPreviewLines + 2, MaxPreviewLines + 2>>}

InitBrowser ==
    /\ fs \in [BrowserPaths -> UNION {EntriesOf(p) : p \in BrowserPaths}]
    /\ \A p \in BrowserPaths : fs[p] \in EntriesOf(p)
    /\ cache = <<>>
    /\ args = <<>>
    /\ result = <<>>
    /\ run = <<>>
    /\ manager = <<>>
    /\ op = "none"
    /\ NoChunkerCall
    /\ NoFilterCall

BrowserIdle ==
    /\ UNCHANGED <<path, content, readable, max_lines, chunks>>
    /\ UNCHANGED <<file_filter, fs_entry, verdict, detected, run, manager>>

\* browser.get_file_metadata(file_path, include_chunks)
GetFileMetadata ==
    \E p \in BrowserPaths, include_chunks \in BOOLEAN :
        \E r \in {get_file_metadata(Browser, cache, fs[p], include_chunks)} :
            /\ args' = [file_path |-> p, include_chunks |-> include_chunks]
            /\ result' = r.value
            /\ cache' = r.cache
            /\ op' = "get_file_metadata"
            /\ UNCHANGED fs
            /\ BrowserIdle

\* browser.create_line_range_selection(file_path, start_line, end_line)
CreateLineRangeSelection ==
    \E p \in BrowserPaths, range \in SelectionRanges :
        \E r \in {create_line_range_selection(Browser, cache, fs[p], range[1], range[2])} :
            /\ args' = [file_path |-> p, start_line |-> range[1], end_line |-> range[2]]
            /\ result' = r.value
            /\ cache' = r.cache
            /\ op' = "create_line_range_selection"
            /\ UNCHANGED fs
            /\ BrowserIdle

\* The environment removes a file or a directory.
RemoveFile ==
    \E p \in BrowserPaths :
        /\ fs[p].exists
        /\ fs' = [fs EXCEPT ![p] = MissingEntry(p)]
        /\ args' = [file_path |-> p]
        /\ result' = <<>>
        /\ op' = "remove"
        /\ UNCHANGED cache
        /\ BrowserIdle

\* The environment creates or rewrites a regular file.
WriteFile ==
    \E p \in BrowserPaths : \E entry \in EntriesOf(p) :
        /\ entry.is_file
        /\ entry # fs[p]
        /\ ~fs[p].exists \/ fs[p].is_file
        /\ fs' = [fs EXCEPT ![p] = entry]
        /\ args' = [file_path |-> p]
        /\ result' = <<>>
        /\ op' = "write"
        /\ UNCHANGED cache
        /\ BrowserIdle

NextBrowser ==
    \/ GetFileMetadata
    \/ CreateLineRangeSelection
    \/ RemoveFile
    \/ WriteFile

SpecBrowser == InitBrowser /\ [][NextBrowser]_vars

----------------------------------------------------------------------------
(* Properties of the browser                                               *)

\* The file of the last call, as the file system has it at the call.
CalledFile == fs[args.file_path]

\* The number of lines of a regular text file that can be read.
HasLineCount(file) ==
    /\ file.exists /\ file.is_file /\ file.readable
    /\ detect_file_type(file.path) # "BINARY"
    /\ is_text_file(file)

LineCountOf(file) == Len(ReadLines(file.text))

\* C12: create_line_range_selection returns None whenever end_line exceeds
\* the line count of the file (the empty file included), whenever
\* start_line < 1 or end_line < start_line, and whenever the path has no
\* metadata; otherwise it returns a selection that carries exactly that
\* range, with include_whole_file False.
C12_LineRangeSelection ==
    op = "create_line_range_selection" =>
        LET file == CalledFile
            refused ==
                \/ args.start_line < 1
                \/ args.end_line < args.start_line
                \/ ~file.exists \/ ~file.is_file
                \/ HasLineCount(file) /\ args.end_line > LineCountOf(file)
        IN  IF refused THEN result = NoSelection
            ELSE /\ result # NoSelection
                 /\ result[1].line_range =
                        <<[start |-> args.start_line, end |-> args.end_line]>>
                 /\ ~result[1].include_whole_file

\* C13: get_file_metadata returns None when, at the time of the call, the
\* path does not exist or is not a regular file, whatever was looked up
\* before.
C13_MissingGivesNone ==
    op = "get_file_metadata" =>
        (~CalledFile.exists \/ ~CalledFile.is_file => result = NoMetadata)

----------------------------------------------------------------------------
(* PromptData and generate_prompt_string (models.py, main.py)              *)
(*                                                                         *)
(* A prompt is text: a sequence of "\n" and of other elements, each a      *)
(* character of a field or a whole heading.  An optional string is <<>>    *)
(* for None and <<text>> otherwise.                                        *)

\* PromptData(...) with __post_init__: lists that are None become empty.
PromptData(persona, task, context, schemas, examples, constraints) ==
    [persona |-> persona, task |-> task, context |-> context,
     schemas |-> IF schemas = None THEN <<>> ELSE schemas,
     examples |-> IF examples = None THEN <<>> ELSE examples,
     constraints |-> constraints]

\* The truth value of an optional string: None and '' are false.
Truthy(field) == field # <<>> /\ field[1] # <<>>

\* '\n\n'.join(parts)
RECURSIVE JoinBlank(_)
JoinBlank(parts) ==
    IF parts = <<>> THEN <<>>
    ELSE IF Len(parts) = 1 THEN parts[1]
    ELSE parts[1] \o <<NL, NL>> \o JoinBlank(Tail(parts))

Heading(title) == "# " \o title

SubHeading(title, number) == "## " \o title \o " " \o ToString(number)

\* f"# {title}\n\n{body}"
Section(title, body) == <<Heading(title), NL, NL>> \o body

\* The sub-headings numbered from 0.
Numbered_Mut(title, items) ==
    JoinBlank([i \in 1..Len(items) |-> <<SubHeading(title, i - 1), NL, NL>> \o items[i]])

\* "\n\n".join(f"## {title} {i+1}\n\n{item}" for i, item in enumerate(items))
Numbered(title, items) ==
    JoinBlank([i \in 1..Len(items) |-> <<SubHeading(title, i), NL, NL>> \o items[i]])

generate_prompt_string(data) ==
    LET sections ==
            (IF Truthy(data.persona) THEN <<Section("Persona", data.persona[1])>> ELSE <<>>)
            \o (IF Truthy(data.task) THEN <<Section("Task", data.task[1])>> ELSE <<>>)
            \o (IF Truthy(data.context) THEN <<Section("Context", data.context[1])>> ELSE <<>>)
            \o (IF data.schemas # <<>>
                THEN <<Section("Schemas", Numbered("Schema", data.schemas))>> ELSE <<>>)
            \o (IF data.examples # <<>>
                THEN <<Section("Examples", Numbered("Example", data.examples))>> ELSE <<>>)
            \o (IF Truthy(data.constraints)
                THEN <<Section("Constraints", data.constraints[1])>> ELSE <<>>)
    IN  JoinBlank(sections)

----------------------------------------------------------------------------
(* The prompt generator as a state machine: a prompt is generated from a   *)
(* PromptData                                                              *)

MaxItems == 2

\* A field typed in, and a field that holds the content of a file as
\* read_file_content returns it, between two line ends.
FieldTexts == {<<"a">>, <<NL, "a", NL>>}

\* None, the empty string, or a text.
Optional(texts) == {<<>>, <<<<>>>>} \cup {<<t>> : t \in texts}

ItemTexts == {<<"s">>, <<"t", NL>>}

PromptDatas ==
    {PromptData(persona, task, context, schemas, examples, constraints) :
        persona \in Optional({<<"a">>}), task \in Optional({<<"a">>}),
        context \in Optional(FieldTexts),
        schemas \in SeqsUpTo(ItemTexts, MaxItems), examples \in SeqsUpTo(ItemTexts, MaxItems),
        constraints \in Optional(FieldTexts)}

InitPrompt ==
    /\ args \in PromptDatas
    /\ result = <<>>
    /\ fs = <<>>
    /\ cache = <<>>
    /\ run = <<>>
    /\ manager = <<>>
    /\ op = "none"
    /\ NoChunkerCall
    /\ NoFilterCall

\* generate_prompt_string(data)
GeneratePromptString ==
    /\ result' = generate_prompt_string(args)
    /\ op' = "generate_prompt_string"
    /\ UNCHANGED <<args, fs, cache, run, manager>>
    /\ UNCHANGED <<path, content, readable, max_lines, chunks>>
    /\ UNCHANGED <<file_filter, fs_entry, verdict, detected>>

NextPrompt == GeneratePromptString

SpecPrompt == InitPrompt /\ [][NextPrompt]_vars

----------------------------------------------------------------------------
(* Properties of the prompt generator                                      *)

SectionTitles == <<"Persona", "Task", "Context", "Schemas", "Examples", "Constraints">>

\* Whether the field of the k-th section is non-empty.
FieldGiven(data, k) ==
    CASE k = 1 -> Truthy(data.persona)
      [] k = 2 -> Truthy(data.task)
      [] k = 3 -> Truthy(data.context)
      [] k = 4 -> data.schemas # <<>>
      [] k = 5 -> data.examples # <<>>
      [] k = 6 -> Truthy(data.constraints)

\* The places of an element in a text.
PlacesOf(text, element) == {i \in 1..Len(text) : text[i] = element}

\* Every section heading is there once exactly when its field is non-empty,
\* and the headings stand in the fixed order.
SectionsInOrder(data, text) ==
    /\ \A k \in 1..6 :
          Cardinality(PlacesOf(text, Heading(SectionTitles[k]))) =
              (IF FieldGiven(data, k) THEN 1 ELSE 0)
    /\ \A j, k \in 1..6 :
          j < k /\ FieldGiven(data, j) /\ FieldGiven(data, k) =>
              Max(PlacesOf(text, Heading(SectionTitles[j])))
                  < Min(PlacesOf(text, Heading(SectionTitles[k])))

\* The items stand under sub-headings numbered from 1, in list order, each
\* after its sub-heading and one blank line.
ItemsNumbered(title, items, text) ==
    /\ \A n \in 0..MaxItems + 2 :
          Cardinality(PlacesOf(text, SubHeading(title, n))) =
              (IF n \in 1..Len(items) THEN 1 ELSE 0)
    /\ \A n \in 1..Len(items) :
          LET at == Max(PlacesOf(text, SubHeading(title, n)))
          IN  /\ Slice(text, at, at + 2 + Len(items[n])) = <<NL, NL>> \o items[n]
              /\ n > 1 => Max(PlacesOf(text, SubHeading(title, n - 1))) < at

IsHeading(element) == element # NL /\ Len(element) > 1 /\ SubSeq(element, 1, 1) = "#"

\* A heading that is not the first element follows two line ends.
HeadingsAfterTwoLineEnds(text) ==
    \A i \in 2..Len(text) :
        IsHeading(text[i]) => i > 2 /\ text[i - 1] = NL /\ text[i - 2] = NL

\* A heading that is not the first element follows exactly one blank line,
\* and the text does not end with a line end.
OneBlankLineNoTrailing(text) ==
    /\ HeadingsAfterTwoLineEnds(text)
    /\ \A i \in 4..Len(text) : IsHeading(text[i]) => text[i - 3] # NL
    /\ text # <<>> => text[Len(text)] # NL

\* No field and no item begins or ends with a line end.
Edged(t) == t # <<>> /\ (t[1] = NL \/ t[Len(t)] = NL)

NoEdgeLineEnds(data) ==
    /\ \A f \in {data.persona, data.task, data.context, data.constraints} :
          f # <<>> => ~Edged(f[1])
    /\ \A i \in 1..Len(data.schemas) : ~Edged(data.schemas[i])
    /\ \A i \in 1..Len(data.examples) : ~Edged(data.examples[i])

AllEmpty(data) == \A k \in 1..6 : ~FieldGiven(data, k)

----------------------------------------------------------------------------
(* run_session (main.py)                                                   *)
(*                                                                         *)
(* A run goes through the function from check to check.  What it finds on  *)
(* disk and in the environment is fixed when it starts: whether a file is  *)
(* there, what its load gives (an exception, a mapping, or another value   *)
(* such as the None of an empty YAML file or a JSON list), the API key,    *)
(* and whether the API answers.                                            *)

\* The messages of typer.echo, without their decoration.
NoConfiguration == "No configuration found. Run 'promptcraft init' first."

ErrorLoadingConfiguration == "Error loading configuration"

SessionNotFound == "Session not found."

UseList == "Use 'promptcraft list' to see available sessions."

ErrorLoadingSession == "Error loading session"

NoData == "Session contains no data to generate a prompt."

NoApiKey == "OPENAI_API_KEY environment variable not set."

SetApiKey == "Set your API key"

Running == "Running session"

Generating == "Generating response..."

ErrorCallingApi == "Error calling OpenAI API"

DefaultModel == "gpt-4o-mini"

\* dict.get(key, default) of an optional entry
Get(entry, default) == IF entry = <<>> THEN default ELSE entry[1]

\* A run stopped with its messages.
Echo(r, messages, next) == [r EXCEPT !.echoed = r.echoed \o messages, !.pc = next]

\* The run before its first step.
NewRun ==
    [pc |-> "start", echoed |-> <<>>, prompt |-> <<>>, model |-> "",
     client |-> <<>>, requests |-> <<>>, raised |-> ""]

\* Lines 180-183: os.path.exists(config_path)
CheckConfigExists(env, r) ==
    IF ~env.config.exists THEN Echo(r, <<NoConfiguration>>, "returned")
    ELSE [r EXCEPT !.pc = "config_found"]

\* Lines 185-190: yaml.safe_load
LoadConfig(env, r) ==
    IF ~env.config.loads THEN Echo(r, <<ErrorLoadingConfiguration>>, "returned")
    ELSE [r EXCEPT !.pc = "config_loaded"]

\* Lines 193-199: os.path.exists(session_path)
CheckSessionExists(env, r) ==
    IF ~env.session.exists THEN Echo(r, <<SessionNotFound, UseList>>, "returned")
    ELSE [r EXCEPT !.pc = "session_found"]

\* Lines 201-206: json.load
LoadSession(env, r) ==
    IF ~env.session.loads THEN Echo(r, <<ErrorLoadingSession>>, "returned")
    ELSE [r EXCEPT !.pc = "session_loaded"]

\* Lines 208-218: session_data.get(...) of each field, which only a mapping
\* has, PromptData(...) and generate_prompt_string.
GeneratePrompt(env, r) ==
    IF ~env.session.is_mapping THEN [r EXCEPT !.raised = "AttributeError", !.pc = "raised"]
    ELSE LET data == env.session.data
             prompt_data ==
                 PromptData(data.persona, data.task, data.context,
                            Get(data.schemas, <<>>), Get(data.examples, <<>>),
                            data.constraints)
         IN  [r EXCEPT !.prompt = generate_prompt_string(prompt_data),
                       !.pc = "prompt_generated"]

\* Lines 220-222: the empty prompt
CheckPrompt(env, r) ==
    IF r.prompt = <<>> THEN Echo(r, <<NoData>>, "returned")
    ELSE [r EXCEPT !.pc = "prompt_checked"]

\* Lines 224-227: config.get("llm", {}) and llm_config.get("model", ...),
\* which only mappings have.
ReadLlmConfig(env, r) ==
    IF ~env.config.is_mapping THEN [r EXCEPT !.raised = "AttributeError", !.pc = "raised"]
    ELSE LET llm_config == Get(env.config.llm, [is_mapping |-> TRUE, model |-> <<>>])
         IN  IF ~llm_config.is_mapping
             THEN [r EXCEPT !.raised = "AttributeError", !.pc = "raised"]
             ELSE [r EXCEPT !.model = Get(llm_config.model, DefaultModel),
                            !.pc = "llm_configured"]

\* Lines 229-234: os.getenv("OPENAI_API_KEY")
CheckApiKey(env, r) ==
    IF ~Truthy(env.api_key) THEN Echo(r, <<NoApiKey, SetApiKey>>, "returned")
    ELSE [r EXCEPT !.pc = "key_found"]

\* Lines 236-240: OpenAI(api_key=api_key)
CreateClient(env, r) ==
    [Echo(r, <<Running, Generating>>, "client_created") EXCEPT
        !.client = <<[api_key |-> env.api_key[1]]>>]

\* Lines 242-269: client.chat.completions.create(...) and the display of
\* the answer, or the report of the exception.
SendRequest(env, r) ==
    LET message == [role |-> "user", content |-> r.prompt]
        sent == [r EXCEPT !.requests =
                    Append(r.requests, [model |-> r.model, messages |-> <<message>>])]
    IN  IF env.api_answers THEN [sent EXCEPT !.pc = "returned"]
        ELSE Echo(sent, <<ErrorCallingApi>>, "returned")

\* The step of run_session at each position.
run_session_step(env, r) ==
    CASE r.pc = "start" -> CheckConfigExists(env, r)
      [] r.pc = "config_found" -> LoadConfig(env, r)
      [] r.pc = "config_loaded" -> CheckSessionExists(env, r)
      [] r.pc = "session_found" -> LoadSession(env, r)
      [] r.pc = "session_loaded" -> GeneratePrompt(env, r)
      [] r.pc = "prompt_generated" -> CheckPrompt(env, r)
      [] r.pc = "prompt_checked" -> ReadLlmConfig(env, r)
      [] r.pc = "llm_configured" -> CheckApiKey(env, r)
      [] r.pc = "key_found" -> CreateClient(env, r)
      [] r.pc = "client_created" -> SendRequest(env, r)

----------------------------------------------------------------------------
(* A run of run_session as a state machine                                 *)

\* .promptcraft.yml: missing, unloadable, empty (None), a mapping without
\* llm, one whose llm is null, and one whose llm names a model.
ConfigFiles ==
    {[exists |-> FALSE, loads |-> FALSE, is_mapping |-> FALSE, llm |-> <<>>],
     [exists |-> TRUE, loads |-> FALSE, is_mapping |-> FALSE, llm |-> <<>>],
     [exists |-> TRUE, loads |-> TRUE, is_mapping |-> FALSE, llm |-> <<>>],
     [exists |-> TRUE, loads |-> TRUE, is_mapping |-> TRUE, llm |-> <<>>],
     [exists |-> TRUE, loads |-> TRUE, is_mapping |-> TRUE,
      llm |-> <<[is_mapping |-> FALSE, model |-> <<>>]>>],
     [exists |-> TRUE, loads |-> TRUE, is_mapping |-> TRUE,
      llm |-> <<[is_mapping |-> TRUE, model |-> <<"gpt-4o">>]>>]}

\* The fields of a session file that is a JSON object.
SessionDatas ==
    {[persona |-> persona, task |-> task, context |-> <<>>,
      schemas |-> schemas, examples |-> <<>>, constraints |-> <<>>] :
        persona \in Optional({<<"a">>}), task \in Optional({<<"a">>}),
        schemas \in {<<>>, <<None>>, <<<<>>>>, <<<<<<"s">>>>>>}}

NoSessionData ==
    [persona |-> <<>>, task |-> <<>>, context |-> <<>>,
     schemas |-> <<>>, examples |-> <<>>, constraints |-> <<>>]

\* .promptcraft/<name>.json: missing, unloadable, a JSON list, or an object.
SessionFiles ==
    {[exists |-> FALSE, loads |-> FALSE, is_mapping |-> FALSE, data |-> NoSessionData],
     [exists |-> TRUE, loads |-> FALSE, is_mapping |-> FALSE, data |-> NoSessionData],
     [exists |-> TRUE, loads |-> TRUE, is_mapping |-> FALSE, data |-> NoSessionData]}
    \cup {[exists |-> TRUE, loads |-> TRUE, is_mapping |-> TRUE, data |-> data] :
             data \in SessionDatas}

\* OPENAI_API_KEY: unset, empty, or a key.
ApiKeys == Optional({<<"k">>})

InitRun ==
    /\ args \in [config : ConfigFiles, session : SessionFiles,
                 api_key : ApiKeys, api_answers : BOOLEAN]
    /\ run = NewRun
    /\ manager = <<>>
    /\ result = <<>>
    /\ fs = <<>>
    /\ cache = <<>>
    /\ op = "none"
    /\ NoChunkerCall
    /\ NoFilterCall

\* One step of run_session(session_name)
RunSessionStep ==
    /\ run.pc \notin {"returned", "raised"}
    /\ run' = run_session_step(args, run)
    /\ op' = "run_session"
    /\ UNCHANGED <<args, result, fs, cache, manager>>
    /\ UNCHANGED <<path, content, readable, max_lines, chunks>>
    /\ UNCHANGED <<file_filter, fs_entry, verdict, detected>>

NextRun == RunSessionStep

SpecRun == InitRun /\ [][NextRun]_vars

----------------------------------------------------------------------------
(* Properties of run_session                                               *)

RunEnded == op = "run_session" /\ run.pc \in {"returned", "raised"}

\* The prompt of the session of the run.
SessionPrompt(env) ==
    generate_prompt_string(
        PromptData(env.session.data.persona, env.session.data.task,
                   env.session.data.context, Get(env.session.data.schemas, <<>>),
                   Get(env.session.data.examples, <<>>), env.session.data.constraints))

\* The four checks, in their order: the configuration exists and loads,
\* the session exists and loads, the prompt is not empty, the key is set.
RunChecks(env) ==
    <<[passes |-> env.config.exists, report |-> <<NoConfiguration>>],
      [passes |-> env.config.loads, report |-> <<ErrorLoadingConfiguration>>],
      [passes |-> env.session.exists, report |-> <<SessionNotFound, UseList>>],
      [passes |-> env.session.loads, report |-> <<ErrorLoadingSession>>],
      [passes |-> SessionPrompt(env) # <<>>, report |-> <<NoData>>],
      [passes |-> Truthy(env.api_key), report |-> <<NoApiKey, SetApiKey>>]>>

\* C15: the client is created and a request is sent only after every check
\* has passed; a run in which a check fails reports the error of the first
\* failing check and returns without a request; a run in which every check
\* passes sends exactly one request, with the single user message whose
\* content is the prompt of the session.
C15_RunSession ==
    LET checks == RunChecks(args)
        failing == {k \in 1..Len(checks) : ~checks[k].passes}
    IN  /\ op = "run_session" /\ (run.client # <<>> \/ run.requests # <<>>) => failing = {}
        /\ RunEnded /\ failing # {} =>
              /\ run.pc = "returned"
              /\ run.echoed = checks[Min(failing)].report
              /\ run.client = <<>> /\ run.requests = <<>>
        /\ RunEnded /\ failing = {} =>
              /\ run.pc = "returned"
              /\ Len(run.requests) = 1
              /\ run.requests[1].messages =
                    <<[role |-> "user", content |-> SessionPrompt(args)]>>

----------------------------------------------------------------------------
(* FileSelection.get_content and get_selection_summary (file_browser.py)   *)

SelectionUnableToRead == <<"# Unable to read file content">>

\* open(path, 'r', encoding='utf-8') and the read of the text succeed.
CanReadUtf8(file) ==
    file.exists /\ file.is_file /\ file.readable /\ "utf-8" \in file.encodings

\* The contents of the chunks of a list, in its order.
ChunkContents(selected_chunks) ==
    [i \in 1..Len(selected_chunks) |-> selected_chunks[i].content]

\* get_content with the line range looked at before the chunks.
get_content_Mut(self, file) ==
    IF self.line_range # <<>> /\ CanReadUtf8(file)
    THEN Concat(Slice(ReadLines(file.text), self.line_range[1].start - 1,
                      self.line_range[1].end))
    ELSE IF self.selected_chunks # <<>>
    THEN JoinBlank(ChunkContents(self.selected_chunks))
    ELSE IF ~CanReadUtf8(file) THEN SelectionUnableToRead
    ELSE file.text

\* FileSelection.get_content(): file is what self.file_info.path names when
\* the content is asked for.
get_content(self, file) ==
    IF self.selected_chunks # <<>>
    THEN JoinBlank(ChunkContents(self.selected_chunks))
    ELSE IF ~CanReadUtf8(file) THEN SelectionUnableToRead
    ELSE IF self.line_range # <<>>
    THEN Concat(Slice(ReadLines(file.text), self.line_range[1].start - 1,
                      self.line_range[1].end))
    ELSE file.text

\* LineRange.__str__
LineRangeStr(self) ==
    IF self.start = self.end THEN "line " \o ToString(self.start)
    ELSE "lines " \o ToString(self.start) \o "-" \o ToString(self.end)

\* ', '.join(names), as the sequence of its parts
RECURSIVE JoinComma(_)
JoinComma(names) ==
    IF names = <<>> THEN <<>>
    ELSE IF Len(names) = 1 THEN <<names[1]>>
    ELSE <<names[1], ", ">> \o JoinComma(Tail(names))

\* EnhancedFileBrowser.get_selection_summary(selection), as the sequence of
\* the parts of the string.
get_selection_summary(selection) ==
    IF selection.selected_chunks # <<>>
    THEN <<"Selected chunks: ">>
            \o JoinComma([i \in 1..Len(selection.selected_chunks) |->
                             selection.selected_chunks[i].name])
    ELSE IF selection.line_range # <<>>
    THEN <<"Selected " \o LineRangeStr(selection.line_range[1])>>
    ELSE <<"Whole file (" \o selection.file_info.size_human \o ")">>

----------------------------------------------------------------------------
(* A selection as a state machine: its content and its summary are asked   *)
(* for                                                                     *)

SelectedPath == [root |-> BrowserRoot, rel |-> <<"main.py">>]

\* The file the selection was made from: two functions and an import.
SelectedSource ==
    BrowserEntry(SelectedPath, TRUE, TRUE,
                 Text(<<<<"def1">>, <<"import">>, <<"def1">>>>, TRUE),
                 AllEncodings, TRUE, "text/x-python")

SelectedMetadata == get_file_metadata(Browser, <<>>, SelectedSource, TRUE).value[1]

\* The file when the content is asked for: as it was, or changed since.
SelectedFiles == {SelectedSource} \cup EntriesOf(SelectedPath)

LineRanges ==
    {LineRange(a, b) : a \in 1..MaxPreviewLines + 2, b \in 1..MaxPreviewLines + 2}
        \ {Raise("ValueError", "End line must be >= start line")}

MaxSelected == 2

SelectionsOf(metadata) ==
    {FileSelection(metadata, line_range, selected_chunks, include_whole_file) :
        line_range \in {<<>>} \cup {<<r>> : r \in LineRanges},
        selected_chunks \in SeqsUpTo({metadata.chunks[i] : i \in 1..Len(metadata.chunks)},
                                     MaxSelected),
        include_whole_file \in BOOLEAN}

FileSelections == SelectionsOf(SelectedMetadata)

InitSelection ==
    /\ args \in [selection : FileSelections, file : SelectedFiles]
    /\ result = <<>>
    /\ fs = <<>>
    /\ cache = <<>>
    /\ run = <<>>
    /\ manager = <<>>
    /\ op = "none"
    /\ NoChunkerCall
    /\ NoFilterCall

SelectionIdle ==
    /\ UNCHANGED <<args, fs, cache, run, manager>>
    /\ UNCHANGED <<path, content, readable, max_lines, chunks>>
    /\ UNCHANGED <<file_filter, fs_entry, verdict, detected>>

\* selection.get_content()
GetContent ==
    /\ result' = get_content(args.selection, args.file)
    /\ op' = "get_content"
    /\ SelectionIdle

\* browser.get_selection_summary(selection)
GetSelectionSummary ==
    /\ result' = get_selection_summary(args.selection)
    /\ op' = "get_selection_summary"
    /\ SelectionIdle

NextSelection ==
    \/ GetContent
    \/ GetSelectionSummary

SpecSelection == InitSelection /\ [][NextSelection]_vars

----------------------------------------------------------------------------
(* Properties of a selection                                               *)

\* The lines of a text whose numbers lie in a range, joined.
LinesIn(text, range) ==
    LET lines == ReadLines(text)
    IN  Concat([k \in 1..Cardinality({i \in 1..Len(lines) : range.start <= i /\ i <= range.end}) |->
                   lines[range.start + k - 1]])

\* The selection of the call with another line range and whole-file flag.
Reselected(line_range, include_whole_file) ==
    [args.selection EXCEPT !.line_range = line_range,
                           !.include_whole_file = include_whole_file]

\* C16: when the chunk list of a selection is not empty, its content is the
\* contents of the chunks in list order and its summary names the chunks in
\* list order, whatever the line range and the whole-file flag are;
\* otherwise, when there is a line range, the content is exactly the lines
\* of the file from start to end, and the summary names the range;
\* otherwise the content is the whole file and the summary says so.  (A
\* file that cannot be read gives the placeholder instead of its text.)
C16_SelectionPriority ==
    LET selection == args.selection
        names == [i \in 1..Len(selection.selected_chunks) |-> selection.selected_chunks[i].name]
    IN  /\ op = "get_content" =>
              IF selection.selected_chunks # <<>>
              THEN /\ result = JoinBlank(ChunkContents(selection.selected_chunks))
                   /\ \A line_range \in {<<>>} \cup {<<r>> : r \in LineRanges},
                         include_whole_file \in BOOLEAN :
                         get_content(Reselected(line_range, include_whole_file), args.file)
                             = result
              ELSE IF ~CanReadUtf8(args.file) THEN result = SelectionUnableToRead
              ELSE IF selection.line_range # <<>>
              THEN result = LinesIn(args.file.text, selection.line_range[1])
              ELSE result = args.file.text
        /\ op = "get_selection_summary" =>
              IF selection.selected_chunks # <<>>
              THEN /\ Head(result) = "Selected chunks: "
                   /\ [i \in 1..Len(names) |-> result[2 * i]] = names
                   /\ Len(result) = 2 * Len(names)
              ELSE IF selection.line_range # <<>>
              THEN result = <<"Selected " \o LineRangeStr(selection.line_range[1])>>
              ELSE result = <<"Whole file (" \o selection.file_info.size_human \o ")">>

\* The content of a selection with two chunks, a line range and the
\* whole-file flag was asked for, the file being readable.
C16_Witness ==
    /\ op = "get_content"
    /\ Len(args.selection.selected_chunks) = 2
    /\ args.selection.selected_chunks[1] # args.selection.selected_chunks[2]
    /\ args.selection.line_range # <<>>
    /\ args.selection.include_whole_file
    /\ CanReadUtf8(args.file)
    /\ result # args.file.text

----------------------------------------------------------------------------
(* SmartFileFilter.filter_files (file_filter.py)                           *)

\* The members of the enumeration FileType, in the order of their declaration.
FileTypes ==
    <<"SOURCE_CODE", "CONFIG", "DOCUMENTATION", "TEST", "BUILD", "DEPENDENCY",
      "BINARY", "UNKNOWN">>

\* file_type.value
FileTypeValue(file_type) == Lower(file_type)

\* file_info.exclusion_reason = reason
WithExclusionReason(file_info, reason) ==
    [path |-> file_info.path, relative_path |-> file_info.relative_path,
     size_bytes |-> file_info.size_bytes, file_type |-> file_info.file_type,
     is_text |-> file_info.is_text, last_modified |-> file_info.last_modified,
     exclusion_reason |-> reason]

\* The results before the first path.
NoResults ==
    [included |-> <<>>, excluded |-> <<>>,
     by_type |-> [v \in {FileTypeValue(FileTypes[k]) : k \in 1..Len(FileTypes)} |-> <<>>]]

\* Lines 334-346: the results after the first k paths; files[k] is what the
\* file system has at the k-th path.
RECURSIVE FilterFrom(_, _, _)
FilterFrom(self, files, k) ==
    IF k = 0 THEN NoResults
    ELSE LET results == FilterFrom(self, files, k - 1)
             file_info == get_file_info(self, files[k])
             judged == should_include_file(self, files[k])
         IN  IF file_info = NoFileInfo THEN results
             ELSE IF judged[1]
             THEN [results EXCEPT
                      !.included = Append(@, file_info[1]),
                      !.by_type[FileTypeValue(file_info[1].file_type)] =
                          Append(@, file_info[1])]
             ELSE [results EXCEPT
                      !.excluded = Append(@, WithExclusionReason(file_info[1], judged[2]))]

\* SmartFileFilter.filter_files(file_paths)
filter_files(self, files) == FilterFrom(self, files, Len(files))

----------------------------------------------------------------------------
(* filter_files as a state machine: a list of paths of a file system is    *)
(* filtered                                                                *)

MaxPaths == 2

FilteredRoot == <<"/", "home", "proj">>

FilteredNames == {"main.py", "logo.png"}

FilteredPaths == {[root |-> FilteredRoot, rel |-> <<name>>] : name \in FilteredNames}

\* What the file system may have at a path: nothing, a directory, or a
\* regular file of some size.
FilteredEntries(file_path) ==
    {f \in Files(FilteredRoot, {PathName(file_path)}) :
        f.path = file_path /\ f.mime_type = "None"}

InitFilterFiles ==
    /\ file_filter = SmartFileFilter(FilteredRoot, 1, FALSE,
                                     [exists |-> FALSE, readable |-> FALSE, lines |-> <<>>],
                                     <<>>)
    /\ fs \in [FilteredPaths -> UNION {FilteredEntries(p) : p \in FilteredPaths}]
    /\ \A p \in FilteredPaths : fs[p] \in FilteredEntries(p)
    /\ args \in SeqsUpTo(FilteredPaths, MaxPaths)
    /\ result = <<>>
    /\ cache = <<>>
    /\ run = <<>>
    /\ manager = <<>>
    /\ fs_entry = <<>>
    /\ verdict = <<>>
    /\ detected = <<>>
    /\ op = "none"
    /\ NoChunkerCall

\* file_filter.filter_files(file_paths)
FilterFiles ==
    /\ result' = filter_files(file_filter, [k \in 1..Len(args) |-> fs[args[k]]])
    /\ op' = "filter_files"
    /\ UNCHANGED <<args, fs, cache, run, manager>>
    /\ UNCHANGED <<path, content, readable, max_lines, chunks>>
    /\ UNCHANGED <<file_filter, fs_entry, verdict, detected>>

NextFilterFiles == FilterFiles

SpecFilterFiles == InitFilterFiles /\ [][NextFilterFiles]_vars

----------------------------------------------------------------------------
(* Properties of filter_files                                              *)

\* How often a path stands in a list of paths, and in a list of records.
TimesIn(paths, file_path) == Cardinality({k \in 1..Len(paths) : paths[k] = file_path})

RecordsOf(records, file_path) == {k \in 1..Len(records) : records[k].path = file_path}

\* C17: every path given to filter_files ends up in exactly one of included
\* and excluded, in included exactly when should_include_file accepts it,
\* the excluded records carrying the reason; and the map by category holds
\* exactly the included records, each under its own category only.
C17_EveryPathBucketed ==
    op = "filter_files" =>
        /\ \A p \in FilteredPaths :
              LET judged == should_include_file(file_filter, fs[p])
                  inside == RecordsOf(result.included, p)
                  outside == RecordsOf(result.excluded, p)
              IN  /\ Cardinality(inside) = (IF judged[1] THEN TimesIn(args, p) ELSE 0)
                  /\ Cardinality(outside) = (IF judged[1] THEN 0 ELSE TimesIn(args, p))
                  /\ \A k \in outside : result.excluded[k].exclusion_reason = judged[2]
        /\ \A v \in DOMAIN result.by_type :
              LET OfCategory(record) == FileTypeValue(record.file_type) = v
              IN  result.by_type[v] = SelectSeq(result.included, OfCategory)

----------------------------------------------------------------------------
(* SmartFileFilter.get_priority_files (file_filter.py)                     *)

\* FileInfo(path, relative_path, size_bytes, file_type, is_text, last_modified)
FileInfo(file_path, relative_path, size_bytes, file_type, is_text, last_modified) ==
    [path |-> file_path, relative_path |-> relative_path, size_bytes |-> size_bytes,
     file_type |-> file_type, is_text |-> is_text, last_modified |-> last_modified]

priority_order == <<"SOURCE_CODE", "CONFIG", "TEST", "DOCUMENTATION", "BUILD", "UNKNOWN">>

\* The keys compared with the time of the last change ascending.
KeyLess_Mut(f, g) ==
    \/ f.size_bytes < g.size_bytes
    \/ f.size_bytes = g.size_bytes /\ f.last_modified < g.last_modified

\* The comparison of two sort keys (f.size_bytes, -f.last_modified).
KeyLess(f, g) ==
    \/ f.size_bytes < g.size_bytes
    \/ f.size_bytes = g.size_bytes /\ -f.last_modified < -g.last_modified

\* A record put into a sorted list behind every record whose key is not
\* greater: list.sort is stable.
RECURSIVE InsertSorted(_, _)
InsertSorted(sorted, f) ==
    IF sorted = <<>> THEN <<f>>
    ELSE IF KeyLess(f, Head(sorted)) THEN <<f>> \o sorted
    ELSE <<Head(sorted)>> \o InsertSorted(Tail(sorted), f)

\* type_files.sort(key=...)
RECURSIVE SortFiles(_)
SortFiles(type_files) ==
    IF type_files = <<>> THEN <<>>
    ELSE InsertSorted(SortFiles(SubSeq(type_files, 1, Len(type_files) - 1)),
                      type_files[Len(type_files)])

\* Lines 368-373: the sorted records of the categories from the k-th on.
RECURSIVE PrioritizedFrom(_, _)
PrioritizedFrom(file_infos, k) ==
    IF k > Len(priority_order) THEN <<>>
    ELSE LET OfType(f) == f.file_type = priority_order[k]
         IN  SortFiles(SelectSeq(file_infos, OfType)) \o PrioritizedFrom(file_infos, k + 1)

\* Python's seq[:limit]: a negative limit counts from the end.
UpTo(records, limit) ==
    IF limit >= 0 THEN Slice(records, 0, limit)
    ELSE Slice(records, 0, Max({0, Len(records) + limit}))

\* SmartFileFilter.get_priority_files(file_infos, limit)
get_priority_files(file_infos, limit) ==
    UpTo(PrioritizedFrom(file_infos, 1), limit)

----------------------------------------------------------------------------
(* get_priority_files as a state machine: a list of records of included    *)
(* files is ranked                                                         *)

MaxRecords == 3

\* A record of an included file.
Included(name, file_type, size_bytes, last_modified) ==
    FileInfo([root |-> FilteredRoot, rel |-> <<name>>], name, size_bytes, file_type, TRUE,
             last_modified)

\* Records of included files: one of each category that filter_files lets
\* through, and source files that differ in size, in age, or in name only.
RankedRecords ==
    {Included("a.py", "SOURCE_CODE", 1, 1), Included("b.py", "SOURCE_CODE", 1, 1),
     Included("c.py", "SOURCE_CODE", 1, 2), Included("d.py", "SOURCE_CODE", 2, 3),
     Included("e.json", "CONFIG", 0, 0), Included("test_f.py", "TEST", 0, 0),
     Included("g.md", "DOCUMENTATION", 0, 3), Included("Makefile", "BUILD", 0, 0),
     Included("h", "UNKNOWN", 0, 0)}

InitPriority ==
    /\ args \in [file_infos : SeqsUpTo(RankedRecords, MaxRecords), limit : 0..MaxRecords + 1]
    /\ result = <<>>
    /\ fs = <<>>
    /\ cache = <<>>
    /\ run = <<>>
    /\ manager = <<>>
    /\ op = "none"
    /\ NoChunkerCall
    /\ NoFilterCall

\* file_filter.get_priority_files(file_infos, limit)
GetPriorityFiles ==
    /\ result' = get_priority_files(args.file_infos, args.limit)
    /\ op' = "get_priority_files"
    /\ UNCHANGED <<args, fs, cache, run, manager>>
    /\ UNCHANGED <<path, content, readable, max_lines, chunks>>
    /\ UNCHANGED <<file_filter, fs_entry, verdict, detected>>

NextPriority == GetPriorityFiles

SpecPriority == InitPriority /\ [][NextPriority]_vars

----------------------------------------------------------------------------
(* Properties of get_priority_files                                        *)

\* The place of a category in the priority: SOURCE_CODE first.
PriorityOf(file_type) ==
    CASE file_type = "SOURCE_CODE" -> 1
      [] file_type = "CONFIG" -> 2
      [] file_type = "TEST" -> 3
      [] file_type = "DOCUMENTATION" -> 4
      [] file_type = "BUILD" -> 5
      [] file_type = "UNKNOWN" -> 6

\* f may not stand behind g: its category comes first, or in one category it
\* is smaller, or of the same size and changed later.
Before(f, g) ==
    \/ PriorityOf(f.file_type) < PriorityOf(g.file_type)
    \/ /\ f.file_type = g.file_type
       /\ \/ f.size_bytes < g.size_bytes
          \/ f.size_bytes = g.size_bytes /\ f.last_modified > g.last_modified

\* How often a record stands in a list.
Times(records, f) == Cardinality({k \in 1..Len(records) : records[k] = f})

\* C18: get_priority_files returns the first limit records of the input as
\* ordered by category (SOURCE_CODE, CONFIG, TEST, DOCUMENTATION, BUILD,
\* UNKNOWN), then by ascending size, then by descending time of the last
\* change: at most limit records, all of them input records, none more
\* often than the input has it, in that order, and none left out that
\* comes before a returned one.
C18_PriorityOrder ==
    op = "get_priority_files" =>
        LET given == args.file_infos
            left(f) == Times(given, f) - Times(result, f)
        IN  /\ Len(result) = MinOf(args.limit, Len(given))
            /\ \A k \in 1..Len(result) : Times(result, result[k]) <= Times(given, result[k])
            /\ \A j, k \in 1..Len(result) : j < k => ~Before(result[k], result[j])
            /\ \A k \in 1..Len(given), j \in 1..Len(result) :
                  left(given[k]) > 0 => ~Before(given[k], result[j])

\* Three source files were ranked, a large new one first in the input, then
\* a small old one and a small newer one, and two were asked for.
C18_Witness ==
    /\ op = "get_priority_files"
    /\ args.limit = 2
    /\ args.file_infos = <<Included("d.py", "SOURCE_CODE", 2, 3), Included("a.py", "SOURCE_CODE", 1, 1),
                           Included("c.py", "SOURCE_CODE", 1, 2)>>
    /\ result = <<Included("c.py", "SOURCE_CODE", 1, 2), Included("a.py", "SOURCE_CODE", 1, 1)>>

----------------------------------------------------------------------------
(* Further properties of the structured chunker                            *)

\* The chunks of a kind, as their places in the list.
ChunksOfType(chunk_type) == {k \in 1..Len(chunks) : chunks[k].chunk_type = chunk_type}

TopLevel(tree, statements) == {i \in statements : tree.body[i].depth = 0}

\* C19: the structured chunker gives FUNCTION chunks for top-level functions
\* only: every FUNCTION chunk starts at a top-level function definition, a
\* function defined inside a function or a method has no chunk of its own,
\* and there are as many FUNCTION chunks as top-level function definitions.
C19_TopLevelFunctionsOnly ==
    LET tree == ast_parse(content)
        top == TopLevel(tree, FunctionDefs(tree))
    IN  (Called /\ readable /\ Strategy(path) = "structured" /\ tree.ok) =>
            /\ \A k \in ChunksOfType("FUNCTION") :
                  \E i \in top : chunks[k].start_line = tree.body[i].lineno
            /\ Cardinality(ChunksOfType("FUNCTION")) = Cardinality(top)

\* C20: the structured chunker gives at most one IMPORT chunk, and it runs
\* from the first line of the first top-level import statement to the last
\* line of the last one; an import inside a function or a class neither
\* makes nor widens it.
C20_ImportRangeTopLevel ==
    LET tree == ast_parse(content)
        top == TopLevel(tree, Imports(tree))
    IN  (Called /\ readable /\ Strategy(path) = "structured" /\ tree.ok) =>
            /\ Cardinality(ChunksOfType("IMPORT")) = (IF top = {} THEN 0 ELSE 1)
            /\ \A k \in ChunksOfType("IMPORT") :
                  /\ chunks[k].start_line = tree.body[Min(top)].lineno
                  /\ chunks[k].end_line = tree.body[Max(top)].end_lineno

----------------------------------------------------------------------------
(* Further properties of the heuristic chunker                             *)

\* C21: the heuristic chunker gives at most one IMPORT chunk, and every line
\* from its start_line to its end_line matches the import/export syntax, so
\* that no other declaration lies inside the import chunk.
C21_ImportRunContiguous ==
    LET lines == SplitLines(content)
    IN  (Called /\ readable /\ Strategy(path) = "heuristic") =>
            /\ Cardinality(ChunksOfType("IMPORT")) <= 1
            /\ \A k \in ChunksOfType("IMPORT") :
                  \A n \in chunks[k].start_line..chunks[k].end_line :
                      ReMatch("import_pattern", Strip(lines[n]))

----------------------------------------------------------------------------
(* The block-end scan on its own: JavaScriptChunker._find_block_end is     *)
(* called for a matching line of a list of lines                           *)

MaxScanLines == 4

ScanLines ==
    { <<"x">>,
      <<"}">>,
      <<"function", "{">>,
      <<"type", "x">>,
      <<"x", DQ, "{", DQ>>,
      <<SQ, BS, BS, SQ, "}">> }

\* The lines _extract_by_pattern starts a scan from.
Matches(line) ==
    \E pattern \in JsPatterns \ {"import_pattern"} : ReMatch(pattern, Strip(line))

InitBlockEnd ==
    /\ \E lines \in SeqsUpTo(ScanLines, MaxScanLines) \ {<<>>} :
          \E start_idx \in 0..Len(lines) - 1 :
              /\ Matches(lines[start_idx + 1])
              /\ args = [lines |-> lines, start_idx |-> start_idx]
    /\ result = <<>>
    /\ fs = <<>>
    /\ cache = <<>>
    /\ run = <<>>
    /\ manager = <<>>
    /\ op = "none"
    /\ NoChunkerCall
    /\ NoFilterCall

\* self._find_block_end(lines, i)
FindBlockEnd ==
    /\ result' = <<Js_find_block_end(args.lines, args.start_idx)>>
    /\ op' = "find_block_end"
    /\ UNCHANGED <<args, fs, cache, run, manager>>
    /\ UNCHANGED <<path, content, readable, max_lines, chunks>>
    /\ UNCHANGED <<file_filter, fs_entry, verdict, detected>>

NextBlockEnd == FindBlockEnd

SpecBlockEnd == InitBlockEnd /\ [][NextBlockEnd]_vars

\* The line (1-based) on which the count of the braces outside string
\* literals, counted from character j of line i (both 0-based), first comes
\* back to zero, and the number of lines when it never does.  Inside a
\* literal a backslash escapes the character after it.
RECURSIVE BalanceFrom(_, _, _, _, _)
BalanceFrom(lines, i, j, count, quote) ==
    IF i >= Len(lines) THEN Len(lines)
    ELSE IF j >= Len(lines[i + 1]) THEN BalanceFrom(lines, i + 1, 0, count, quote)
    ELSE LET char == lines[i + 1][j + 1]
             step == IF quote = "None" /\ char = "{" THEN 1
                     ELSE IF quote = "None" /\ char = "}" THEN -1
                     ELSE 0
         IN  IF step # 0 /\ count + step = 0 THEN i + 1
             ELSE IF quote # "None" /\ char = BS
                  THEN BalanceFrom(lines, i, j + 2, count, quote)
             ELSE IF quote # "None" /\ char = quote
                  THEN BalanceFrom(lines, i, j + 1, count, "None")
             ELSE IF quote = "None" /\ char \in JsQuotes
                  THEN BalanceFrom(lines, i, j + 1, count, char)
             ELSE BalanceFrom(lines, i, j + 1, count + step, quote)

\* C22: for a match on line s the block-end scan returns (it neither fails
\* nor raises) an end line e with s <= e <= number of lines, and e is the
\* line on which the brace count, counted from line s, first returns to zero,
\* or the last line of the file when the braces never balance.
C22_BlockEndScan ==
    op = "find_block_end" =>
        LET s == args.start_idx + 1
            e == result[1]
        IN  /\ s <= e
            /\ e <= Len(args.lines)
            /\ e = BalanceFrom(args.lines, args.start_idx, 0, 0, "None")

----------------------------------------------------------------------------
(* Further properties of the browser                                       *)

\* What a lookup with chunks returns when it reads the file and not the cache.
ReadAfresh(file) == get_file_metadata(Browser, <<>>, file, TRUE).value

\* C23: the metadata cache holds only entries written by chunk-less lookups
\* and every cached entry has an empty chunk list; a lookup with
\* include_chunks = true does not take its result from the cache and leaves
\* the cache as it was.
C23_CacheChunkless ==
    /\ [](\A key \in DOMAIN cache : cache[key].chunks = <<>>)
    /\ [][/\ cache' # cache =>
                \/ op' = "create_line_range_selection"
                \/ op' = "get_file_metadata" /\ ~args'.include_chunks
          /\ (op' = "get_file_metadata" /\ args'.include_chunks) =>
                /\ cache' = cache
                /\ result' = ReadAfresh(fs[args'.file_path])]_vars

\* A file whose metadata is cached is looked up with chunks, and chunks are
\* returned.
C23_Witness ==
    /\ op = "get_file_metadata"
    /\ args.include_chunks
    /\ PathStr(args.file_path) \in DOMAIN cache
    /\ result # NoMetadata
    /\ result[1].chunks # <<>>

\* C24: for every text file, whichever encoding decoded it, the preview is
\* the first max_preview_lines lines of the file at most, followed by the
\* suffix "... (N more lines)" with N = line_count - max_preview_lines exactly
\* when the file has more lines than that.  Stated for the lookups that read
\* the file (include_chunks = true), so that no cached preview is involved.
C24_PreviewCapped ==
    (/\ op = "get_file_metadata"
     /\ args.include_chunks
     /\ result # NoMetadata
     /\ result[1].preview # <<>>) =>
        LET lines == ReadLines(CalledFile.text)
            kept == Concat(Slice(lines, 0, Browser.max_preview_lines))
            N == result[1].line_count[1] - Browser.max_preview_lines
        IN  /\ result[1].line_count = <<Len(lines)>>
            /\ result[1].preview[1] = IF N > 0 THEN kept \o MoreLines(N) ELSE kept

----------------------------------------------------------------------------
(* SmartFileFilter.scan_directory (file_filter.py): the listing is what     *)
(* root_path.rglob('*') yields, in its order; it yields the first `yields`  *)
(* entries and then either is exhausted or raises an OSError                *)

\* Lines 381-386: the files collected from entry k (0-based) on.
RECURSIVE CollectFrom(_, _, _, _, _)
CollectFrom(listing, yields, max_files, all_files, k) ==
    IF k >= yields THEN all_files
    ELSE IF listing[k + 1].exists /\ listing[k + 1].is_file
         THEN IF Len(all_files) + 1 >= max_files * 3
              THEN Append(all_files, listing[k + 1])
              ELSE CollectFrom(listing, yields, max_files,
                               Append(all_files, listing[k + 1]), k + 1)
         ELSE CollectFrom(listing, yields, max_files, all_files, k + 1)

\* SmartFileFilter.scan_directory(max_files)
scan_directory(self, listing, yields, max_files) ==
    filter_files(self, CollectFrom(listing, yields, max_files, <<>>, 0))

MaxListed == 4

MaxScanFiles == 1

ScannedRoot == <<"/", "home", "proj">>

ScannedNames == <<"a.py", "b.md", "logo.png", "lib", "c.py", "d.py", "e.py">>

\* The entry of the tree with the k-th name: a directory or a regular file.
ScannedEntry(k, is_file) ==
    [path |-> [root |-> ScannedRoot, rel |-> <<ScannedNames[k]>>],
     exists |-> TRUE, is_file |-> is_file, size_bytes |-> 0, mime_type |-> "None",
     last_modified |-> 0]

Listings ==
    {[k \in 1..n |-> ScannedEntry(k, kinds[k])] :
        n \in 0..MaxListed, kinds \in [1..MaxListed -> BOOLEAN]}

InitScan ==
    /\ file_filter = SmartFileFilter(ScannedRoot, 1, FALSE,
                                     [exists |-> FALSE, readable |-> FALSE, lines |-> <<>>],
                                     <<>>)
    /\ \E listing \in Listings : \E yields \in 0..Len(listing) :
          \E max_files \in 0..MaxScanFiles :
              args = [listing |-> listing, yields |-> yields, max_files |-> max_files]
    /\ result = <<>>
    /\ fs = <<>>
    /\ cache = <<>>
    /\ run = <<>>
    /\ manager = <<>>
    /\ fs_entry = <<>>
    /\ verdict = <<>>
    /\ detected = <<>>
    /\ op = "none"
    /\ NoChunkerCall

\* file_filter.scan_directory(max_files)
ScanDirectory ==
    /\ result' = scan_directory(file_filter, args.listing, args.yields, args.max_files)
    /\ op' = "scan_directory"
    /\ UNCHANGED <<args, fs, cache, run, manager>>
    /\ UNCHANGED <<path, content, readable, max_lines, chunks>>
    /\ UNCHANGED <<file_filter, fs_entry, verdict, detected>>

NextScan == ScanDirectory

SpecScan == InitScan /\ [][NextScan]_vars

\* The regular files among the entries the listing yielded.
FilesYielded == {k \in 1..args.yields : args.listing[k].is_file}

\* C25: scan_directory(max_files) enumerates at most 3 x max_files files,
\* for every max_files >= 0 and every tree, so that included and excluded
\* together hold at most 3 x max_files records; an enumeration error ends
\* the enumeration without raising and the files found so far are filtered.
C25_ScanCapped ==
    op = "scan_directory" =>
        LET records == Len(result.included) + Len(result.excluded)
        IN  /\ records <= 3 * args.max_files
            /\ records = MinOf(Cardinality(FilesYielded), 3 * args.max_files)

----------------------------------------------------------------------------
(* Further properties of the filter                                        *)

\* Whether an ignore pattern of the filter matches the path below the root:
\* a directory pattern "d/" by a component equal to d, a file pattern by
\* fnmatch of the relative path or of the name.
MatchesBelowRoot(self, file_path) ==
    \E k \in 1..Len(self.ignore_patterns) :
        LET pattern == self.ignore_patterns[k]
        IN  IF EndsWith(pattern, "/")
            THEN \E i \in 1..Len(file_path.rel) :
                    file_path.rel[i] = SubSeq(pattern, 1, Len(pattern) - 1)
            ELSE \/ FnMatch(RelativeTo(file_path), pattern)
                 \/ FnMatch(PathName(file_path), pattern)

\* The same project under another root.
FilterAt(self, root_path) == [self EXCEPT !.root_path = root_path]

FileAt(file, root_path) == [file EXCEPT !.path.root = root_path]

\* C26: a file is excluded with the reason "ignore_pattern" only when an
\* ignore pattern matches its path relative to the root (a directory pattern
\* "d/" by a component of that relative path), and the verdict on a file is
\* the same wherever the root of the project lies.
C26_RootIndependent ==
    Judged =>
        /\ verdict = <<FALSE, "ignore_pattern">> =>
              MatchesBelowRoot(file_filter, fs_entry.path)
        /\ \A root_path \in RootPaths :
              verdict = should_include_file(FilterAt(file_filter, root_path),
                                            FileAt(fs_entry, root_path))

----------------------------------------------------------------------------
(* EnhancedSessionManager (session_manager.py)                             *)
(*                                                                         *)
(* A dictionary is a function from its keys, <<>> when empty.  The session *)
(* directory on disk is a record: index_file is <<>> while                 *)
(* sessions_index.json does not exist and <<dictionary>> otherwise,        *)
(* sessions is the dictionary of the files sessions/<id>.json, legacy and  *)
(* backup are the names N of the files <N>.json of the directory itself    *)
(* and of legacy_backup, refused is the number of writes that the disk has *)
(* refused.  Time is counted in days.  A call is followed as  *)
(* a record m: the index in memory, the disk, the writes to the disk that  *)
(* still succeed, the exception raised ("None" while none is) and the      *)
(* value returned.                                                         *)

\* d[key] = value
DictPut(d, key, value) ==
    [k \in DOMAIN d \cup {key} |-> IF k = key THEN value ELSE d[k]]

\* del d[key]
DictDel(d, key) ==
    IF DOMAIN d \ {key} = {} THEN <<>> ELSE [k \in DOMAIN d \ {key} |-> d[k]]

\* SessionMetadata(id, name, created_at, last_used, tags, favorite, success_rating);
\* success_rating is <<>> for None.
SessionMetadata(id, name, created_at, last_used, tags, favorite, success_rating) ==
    [id |-> id, name |-> name, created_at |-> created_at, last_used |-> last_used,
     tags |-> tags, favorite |-> favorite, success_rating |-> success_rating]

\* The call as it starts.
Calling(index, disk, writes) ==
    [index |-> index, disk |-> disk, writes |-> writes, raised |-> "None",
     returned |-> <<>>]

\* A write to the disk: it raises when the disk refuses it, and nothing is
\* done once the call has raised.
Write(m, disk) ==
    IF m.raised # "None" THEN m
    ELSE IF m.writes = 0 THEN [m EXCEPT !.raised = "OSError", !.disk.refused = @ + 1]
    ELSE [m EXCEPT !.disk = disk, !.writes = @ - 1]

\* A change of the index in memory.
Remember(m, index) == IF m.raised # "None" THEN m ELSE [m EXCEPT !.index = index]

\* return value
Return(m, value) == IF m.raised # "None" THEN m ELSE [m EXCEPT !.returned = <<value>>]

\* _save_session_metadata(session_meta)
save_session_metadata(m, session_meta) ==
    Write(m, [m.disk EXCEPT !.sessions = DictPut(@, session_meta.id, session_meta)])

\* _save_sessions_index()
save_sessions_index(m) == Write(m, [m.disk EXCEPT !.index_file = <<m.index>>])

\* self._sessions_index[session_id] = session_meta
IndexPut(m, session_id, session_meta) ==
    Remember(m, DictPut(m.index, session_id, session_meta))

\* create_session(name, data, tags, description); session_id is what
\* uuid.uuid4() gives and now what datetime.now() gives.
create_session(m, session_id, name, now) ==
    Return(save_sessions_index(
               IndexPut(save_session_metadata(
                            m, SessionMetadata(session_id, name, now, now, <<>>, FALSE, <<>>)),
                        session_id,
                        SessionMetadata(session_id, name, now, now, <<>>, FALSE, <<>>))),
           SessionMetadata(session_id, name, now, now, <<>>, FALSE, <<>>))

\* Lines 299-300 of update_session, session_meta being the object the index
\* holds under session_id.
SaveEntry(m, session_id) ==
    save_sessions_index(save_session_metadata(m, m.index[session_id]))

\* update_session(session_meta) for a session_meta that get_session or
\* get_session_by_name returned: the object of the index itself, so that
\* what is set on it is set in the index, whether or not the saves succeed.
update_session(m, session_id, now) ==
    SaveEntry(Remember(m, [m.index EXCEPT ![session_id].last_used = now]), session_id)

\* Lines 310-313 of delete_session.
UnlinkSessionFile(m, session_id) ==
    IF session_id \in DOMAIN m.disk.sessions
    THEN Write(m, [m.disk EXCEPT !.sessions = DictDel(@, session_id)])
    ELSE m

\* delete_session(session_id)
delete_session(m, session_id) ==
    IF session_id \notin DOMAIN m.index THEN Return(m, FALSE)
    ELSE Return(save_sessions_index(
                    UnlinkSessionFile(Remember(m, DictDel(m.index, session_id)),
                                      session_id)),
                TRUE)

\* toggle_favorite(session_id)
toggle_favorite(m, session_id, now) ==
    IF session_id \notin DOMAIN m.index THEN Return(m, FALSE)
    ELSE Return(update_session(
                    Remember(m, [m.index EXCEPT ![session_id].favorite = ~@]),
                    session_id, now),
                TRUE)

\* rate_session(session_id, rating)
rate_session(m, session_id, rating, now) ==
    IF session_id \notin DOMAIN m.index THEN Return(m, FALSE)
    ELSE IF ~(1 <= rating /\ rating <= 5) THEN Return(m, FALSE)
    ELSE Return(update_session(
                    Remember(m, [m.index EXCEPT ![session_id].success_rating = <<rating>>]),
                    session_id, now),
                TRUE)

\* Lines 405-407: the tags of a session with further tags appended, those it
\* has already left out.
RECURSIVE TagsAdded(_, _)
TagsAdded(session_tags, tags) ==
    IF tags = <<>> THEN session_tags
    ELSE TagsAdded(IF \E k \in 1..Len(session_tags) : session_tags[k] = Head(tags)
                   THEN session_tags
                   ELSE Append(session_tags, Head(tags)),
                   Tail(tags))

\* list.remove(tag): the first occurrence is taken out.
ListRemove(list, tag) ==
    IF \E k \in 1..Len(list) : list[k] = tag
    THEN [k \in 1..Len(list) - 1 |->
             IF k < Min({i \in 1..Len(list) : list[i] = tag}) THEN list[k] ELSE list[k + 1]]
    ELSE list

\* Lines 418-420
RECURSIVE TagsRemoved(_, _)
TagsRemoved(session_tags, tags) ==
    IF tags = <<>> THEN session_tags
    ELSE TagsRemoved(ListRemove(session_tags, Head(tags)), Tail(tags))

\* add_tags(session_id, tags)
add_tags(m, session_id, tags, now) ==
    IF session_id \notin DOMAIN m.index THEN Return(m, FALSE)
    ELSE Return(update_session(
                    Remember(m, [m.index EXCEPT ![session_id].tags = TagsAdded(@, tags)]),
                    session_id, now),
                TRUE)

\* remove_tags(session_id, tags)
remove_tags(m, session_id, tags, now) ==
    IF session_id \notin DOMAIN m.index THEN Return(m, FALSE)
    ELSE Return(update_session(
                    Remember(m, [m.index EXCEPT ![session_id].tags = TagsRemoved(@, tags)]),
                    session_id, now),
                TRUE)

\* SessionMetadata.from_dict(data) raises KeyError for an entry without its
\* id, name, created_at or last_used.
WellFormed(session_data) ==
    {"id", "name", "created_at", "last_used"} \subseteq DOMAIN session_data

\* The loop of import_sessions from entry k on (lines 469-480).
RECURSIVE ImportFrom(_, _, _, _, _)
ImportFrom(m, sessions, overwrite, k, imported_count) ==
    IF m.raised # "None" THEN m
    ELSE IF k > Len(sessions) THEN Return(save_sessions_index(m), imported_count)
    ELSE IF ~WellFormed(sessions[k]) THEN [m EXCEPT !.raised = "KeyError"]
    ELSE IF sessions[k].id \in DOMAIN m.index /\ ~overwrite
    THEN ImportFrom(m, sessions, overwrite, k + 1, imported_count)
    ELSE ImportFrom(IndexPut(save_session_metadata(m, sessions[k]),
                             sessions[k].id, sessions[k]),
                    sessions, overwrite, k + 1, imported_count + 1)

\* import_sessions(import_path, overwrite); import_data is what json.load
\* gives for the file.
import_sessions(m, import_data, overwrite) ==
    IF "sessions" \notin DOMAIN import_data THEN [m EXCEPT !.raised = "ValueError"]
    ELSE ImportFrom(m, import_data.sessions, overwrite, 1, 0)

\* The ids of the sessions, in the order in which the index holds them.
SessionIds == <<"s1", "s2">>

\* The favorites are not spared.
sessions_to_delete_Mut(index, days, now) ==
    SelectSeq(SessionIds,
              LAMBDA session_id :
                  /\ session_id \in DOMAIN index
                  /\ index[session_id].last_used < now - days)

\* Lines 492-494 of cleanup_old_sessions
sessions_to_delete(index, days, now) ==
    SelectSeq(SessionIds,
              LAMBDA session_id :
                  /\ session_id \in DOMAIN index
                  /\ index[session_id].last_used < now - days
                  /\ ~index[session_id].favorite)

\* Lines 496-497 of cleanup_old_sessions
RECURSIVE DeleteEach(_, _)
DeleteEach(m, ids) ==
    IF ids = <<>> THEN m ELSE DeleteEach(delete_session(m, Head(ids)), Tail(ids))

\* cleanup_old_sessions(days)
cleanup_old_sessions(m, days, now) ==
    Return(DeleteEach(m, sessions_to_delete(m.index, days, now)),
           Len(sessions_to_delete(m.index, days, now)))

\* _load_sessions_index(), for an index file that is well formed
load_sessions_index(disk) ==
    IF disk.index_file = <<>> THEN <<>> ELSE disk.index_file[1]

\* legacy_file.stem.replace('_', ' ')
LegacyName(stem) == [k \in 1..Len(stem) |-> IF stem[k] = "_" THEN " " ELSE stem[k]]

\* shutil.move(str(legacy_file), str(backup_dir / legacy_file.name))
MoveToBackup(m, stem) ==
    Write(m, [m.disk EXCEPT !.legacy = @ \ {stem}, !.backup = @ \cup {stem}])

\* except Exception: continue
PassOver(m) == [m EXCEPT !.raised = "None"]

\* The body of the loop of _migrate_legacy_sessions for one legacy session
\* (lines 198-241); stamp is the time of the file.
MigrateOne(m, stem, session_id, stamp) ==
    PassOver(MoveToBackup(
                 IndexPut(save_session_metadata(
                              m, SessionMetadata(session_id, LegacyName(stem), stamp, stamp,
                                                 <<>>, FALSE, <<>>)),
                          session_id,
                          SessionMetadata(session_id, LegacyName(stem), stamp, stamp,
                                          <<>>, FALSE, <<>>)),
                 stem))

\* _migrate_legacy_sessions() of a directory with at most one legacy file
migrate_legacy_sessions(m, session_id, stamp) ==
    IF m.disk.legacy = {} THEN m
    ELSE save_sessions_index(
             MigrateOne(m, CHOOSE stem \in m.disk.legacy : TRUE, session_id, stamp))

\* EnhancedSessionManager(): the index is loaded, the legacy sessions are
\* migrated.
NewSessionManager(disk, writes, session_id, stamp) ==
    migrate_legacy_sessions(Calling(load_sessions_index(disk), disk, writes),
                            session_id, stamp)

\* get_session_by_name(name): the ids of the sessions of that name, the
\* first of which is the one returned.
NamedSessions(index, name) ==
    SelectSeq(SessionIds,
              LAMBDA session_id : session_id \in DOMAIN index
                                  /\ index[session_id].name = name)

\* Lines 192-199 of run_session(session_name): whether the session is found.
SessionFound(disk, session_name) == session_name \in disk.legacy

\* Lines 831-862 of handle_save_session for the manager m just made: the
\* session of that name is updated if the user agrees to overwrite it, and
\* a session is created if there is none.
SaveWith(m, session_name, overwrite, session_id, now) ==
    IF NamedSessions(m.index, session_name) # <<>>
    THEN IF overwrite
         THEN update_session(m, NamedSessions(m.index, session_name)[1], now)
         ELSE m
    ELSE create_session(m, session_id, session_name, now)

\* handle_save_session(prompt_data) for a prompt with data and the name
\* session_name entered; no description and no tags are entered, and what
\* is raised is reported and passed over.
handle_save_session(disk, writes, session_name, overwrite, migrated_id, stamp, session_id, now) ==
    Return(PassOver(SaveWith(NewSessionManager(disk, writes, migrated_id, stamp),
                             session_name, overwrite, session_id, now)),
           <<>>)

----------------------------------------------------------------------------
(* The session manager at work: manager is the index in memory, fs the     *)
(* session directory, result what the last call raised and returned, run   *)
(* the number of the calls made.                                           *)

MaxDay == 1
MaxWrites == 2

Days == 0..MaxDay

\* The writes that succeed before the disk refuses one; NoFailure is more
\* than any call makes.
NoFailure == 2 * Len(SessionIds) + 2
MaxRefused == 1
MaxManagerCalls == 4
WriteBudgets(disk) ==
    IF disk.refused < MaxRefused THEN (0..MaxWrites) \cup {NoFailure} ELSE {NoFailure}

SavedNames == {<<"a">>}
LegacyStems == {<<"a", "_", "b">>}
RunNames == SavedNames \cup LegacyStems \cup {LegacyName(stem) : stem \in LegacyStems}
TagLists == {<<"t">>}
Ratings == {0, 5}

\* The exported files: no 'sessions', or one or two entries of which the
\* last may lack its fields.
ImportedEntry(session_id) ==
    SessionMetadata(session_id, <<"a">>, 0, 0, <<>>, FALSE, <<>>)
ImportFiles ==
    {[export_version |-> "1.0"]}
    \cup {[sessions |-> <<ImportedEntry(i)>>] : i \in {"s1", "s2"}}
    \cup {[sessions |-> <<ImportedEntry(i), [id |-> "s2"]>>] : i \in {"s1", "s2"}}

\* datetime.now(): not before the last use of a session of the index.
Nows(index) == {d \in Days : \A i \in DOMAIN index : index[i].last_used <= d}

\* uuid.uuid4(): an id that no session has.
FreshIds(index, disk) ==
    {SessionIds[k] : k \in 1..Len(SessionIds)}
    \ (DOMAIN index \cup DOMAIN disk.sessions \cup DOMAIN load_sessions_index(disk))

ManagerOperations ==
    {"create_session", "update_session", "delete_session", "toggle_favorite",
     "rate_session", "add_tags", "remove_tags", "import_sessions",
     "cleanup_old_sessions"}

InitSessions ==
    /\ manager = <<>>
    /\ fs \in [index_file : {<<>>}, sessions : {<<>>}, legacy : SUBSET LegacyStems,
               backup : {{}}, refused : {0}]
    /\ result = [raised |-> "None", returned |-> <<>>]
    /\ args = <<>>
    /\ run = [calls |-> 0]
    /\ cache = <<>>
    /\ op = "none"
    /\ NoChunkerCall
    /\ NoFilterCall

\* The call has ended as m.
Ended(m, operation, arguments) ==
    /\ run.calls < MaxManagerCalls
    /\ run' = [calls |-> run.calls + 1]
    /\ manager' = m.index
    /\ fs' = m.disk
    /\ result' = [raised |-> m.raised, returned |-> m.returned]
    /\ op' = operation
    /\ args' = arguments
    /\ UNCHANGED cache
    /\ UNCHANGED <<path, content, readable, max_lines, chunks>>
    /\ UNCHANGED <<file_filter, fs_entry, verdict, detected>>

\* session_manager = EnhancedSessionManager()
Construct ==
    \E writes \in WriteBudgets(fs), stamp \in Days :
        \E session_id \in IF FreshIds(<<>>, fs) = {} THEN {"none"} ELSE FreshIds(<<>>, fs) :
            /\ fs.legacy # {} => session_id # "none"
            /\ Ended(NewSessionManager(fs, writes, session_id, stamp),
                     "EnhancedSessionManager", <<>>)

CreateSession ==
    /\ op # "none"
    /\ \E writes \in WriteBudgets(fs), now \in Nows(manager) :
           \E session_id \in FreshIds(manager, fs), name \in SavedNames :
               Ended(create_session(Calling(manager, fs, writes), session_id, name, now),
                     "create_session",
                     [id |-> session_id])

UpdateSession ==
    /\ op # "none"
    /\ \E writes \in WriteBudgets(fs), now \in Nows(manager), session_id \in DOMAIN manager :
           Ended(update_session(Calling(manager, fs, writes), session_id, now),
                 "update_session", [id |-> session_id])

DeleteSession ==
    /\ op # "none"
    /\ \E writes \in WriteBudgets(fs), k \in 1..Len(SessionIds) :
           Ended(delete_session(Calling(manager, fs, writes), SessionIds[k]),
                 "delete_session", [id |-> SessionIds[k]])

ToggleFavorite ==
    /\ op # "none"
    /\ \E writes \in WriteBudgets(fs), now \in Nows(manager), k \in 1..Len(SessionIds) :
           Ended(toggle_favorite(Calling(manager, fs, writes), SessionIds[k], now),
                 "toggle_favorite", [id |-> SessionIds[k]])

RateSession ==
    /\ op # "none"
    /\ \E writes \in WriteBudgets(fs), now \in Nows(manager), k \in 1..Len(SessionIds) :
           \E rating \in Ratings :
               Ended(rate_session(Calling(manager, fs, writes), SessionIds[k], rating, now),
                     "rate_session",
                     [id |-> SessionIds[k], rating |-> rating])

AddTags ==
    /\ op # "none"
    /\ \E writes \in WriteBudgets(fs), now \in Nows(manager), k \in 1..Len(SessionIds) :
           \E tags \in TagLists :
               Ended(add_tags(Calling(manager, fs, writes), SessionIds[k], tags, now),
                     "add_tags",
                     [id |-> SessionIds[k], tags |-> tags])

RemoveTags ==
    /\ op # "none"
    /\ \E writes \in WriteBudgets(fs), now \in Nows(manager), k \in 1..Len(SessionIds) :
           \E tags \in TagLists :
               Ended(remove_tags(Calling(manager, fs, writes), SessionIds[k], tags, now),
                     "remove_tags",
                     [id |-> SessionIds[k], tags |-> tags])

ImportSessions ==
    /\ op # "none"
    /\ \E writes \in WriteBudgets(fs), import_data \in ImportFiles, overwrite \in BOOLEAN :
           Ended(import_sessions(Calling(manager, fs, writes), import_data, overwrite),
                 "import_sessions",
                 [import_data |-> import_data, overwrite |-> overwrite])

CleanupOldSessions ==
    /\ op # "none"
    /\ \E writes \in WriteBudgets(fs), now \in Nows(manager), days \in Days :
           Ended(cleanup_old_sessions(Calling(manager, fs, writes), days, now),
                 "cleanup_old_sessions",
                 [days |-> days, now |-> now])

\* The save action of the menu
HandleSaveSession ==
    \E writes \in WriteBudgets(fs), now \in Nows(load_sessions_index(fs)) :
        \E session_name \in SavedNames, overwrite \in BOOLEAN :
            \E session_id \in FreshIds(<<>>, fs) \cup {"none"} :
                \E migrated_id \in (FreshIds(<<>>, fs) \cup {"none"}) \ {session_id} :
                    /\ fs.legacy = {} <=> migrated_id = "none"
                    /\ NamedSessions(load_sessions_index(fs), session_name) = <<>>
                           <=> session_id # "none"
                    /\ Ended(handle_save_session(fs, writes, session_name, overwrite,
                                                 migrated_id, now, session_id, now),
                             "handle_save_session", [session_name |-> session_name])

\* run_session(session_name) as far as the look for the session
RunSaved ==
    /\ op # "none"
    /\ \E session_name \in RunNames :
           Ended(Return(Calling(manager, fs, NoFailure),
                        IF SessionFound(fs, session_name) THEN <<>>
                        ELSE <<SessionNotFound, UseList>>),
                 "run_session", [session_name |-> session_name])

NextSessions ==
    \/ Construct
    \/ CreateSession
    \/ UpdateSession
    \/ DeleteSession
    \/ ToggleFavorite
    \/ RateSession
    \/ AddTags
    \/ RemoveTags
    \/ ImportSessions
    \/ CleanupOldSessions
    \/ HandleSaveSession
    \/ RunSaved

SpecSessions == InitSessions /\ [][NextSessions]_vars

----------------------------------------------------------------------------
(* Properties of the session manager                                       *)

\* The ids of the index in memory, of sessions_index.json and of the files
\* of the sessions directory.
IndexIds == DOMAIN manager
PersistedIds == DOMAIN load_sessions_index(fs)
FileIds == DOMAIN fs.sessions

\* C27: after every operation of the session manager (create_session,
\* update_session, delete_session, toggle_favorite, rate_session, add_tags,
\* remove_tags, import_sessions, cleanup_old_sessions), whether it returned
\* or raised part-way, the ids of the index in memory, the ids of the
\* persisted sessions_index.json and the ids of the files of the sessions
\* directory are the same set.
C27_IdsConsistent ==
    op \in ManagerOperations => IndexIds = PersistedIds /\ IndexIds = FileIds

\* The same with no write refused by the disk: an import that meets an entry
\* without its fields has raised after the entries before it were stored.
C27_WithoutRefusal ==
    (op \in ManagerOperations /\ fs.refused = 0)
        => IndexIds = PersistedIds /\ IndexIds = FileIds

----------------------------------------------------------------------------
(* cleanup_old_sessions on the indexes of up to two sessions               *)

\* The indexes: each session was last used on some day and is a favorite
\* or not.
IndexOf(ids, last_used, favorite) ==
    IF ids = {} THEN <<>>
    ELSE [i \in ids |-> SessionMetadata(i, <<"a">>, 0, last_used[i], <<>>,
                                        favorite[i], <<>>)]

Indexes ==
    {IndexOf(ids, last_used, favorite) :
        ids \in SUBSET {"s1", "s2"},
        last_used \in [{"s1", "s2"} -> Days],
        favorite \in [{"s1", "s2"} -> BOOLEAN]}

\* The files of the sessions of ids.
FilesOf(index, ids) == IF ids = {} THEN <<>> ELSE [i \in ids |-> index[i]]

InitCleanup ==
    /\ manager \in Indexes
    /\ \E ids \in SUBSET DOMAIN manager :
           fs = [index_file |-> <<manager>>, sessions |-> FilesOf(manager, ids),
                 legacy |-> {}, backup |-> {}, refused |-> 0]
    /\ result = [raised |-> "None", returned |-> <<>>]
    /\ args = <<>>
    /\ run = [calls |-> 0]
    /\ cache = <<>>
    /\ op = "none"
    /\ NoChunkerCall
    /\ NoFilterCall

Cleanup ==
    \E writes \in WriteBudgets(fs), now \in Nows(manager), days \in Days :
        Ended(cleanup_old_sessions(Calling(manager, fs, writes), days, now),
              "cleanup_old_sessions", [days |-> days, now |-> now])

NextCleanup == Cleanup

SpecCleanup == InitCleanup /\ [][NextCleanup]_vars

\* The sessions that are not favorites and were last used before now - days.
OldSessions(index, days, now) ==
    {i \in DOMAIN index : ~index[i].favorite /\ index[i].last_used < now - days}

\* The session is in the index and on disk as it was.
Untouched(i) ==
    /\ i \in DOMAIN manager' /\ manager'[i] = manager[i]
    /\ i \in DOMAIN fs'.sessions <=> i \in DOMAIN fs.sessions
    /\ i \in DOMAIN fs.sessions => fs'.sessions[i] = fs.sessions[i]

\* The session is neither in the index nor on disk.
Deleted(i) == i \notin DOMAIN manager' /\ i \notin DOMAIN fs'.sessions

\* C28: a cleanup_old_sessions(days) that returns has deleted exactly the
\* sessions that are not favorites and whose last_used is older than
\* now - days, returns their number, and leaves every favorite session and
\* every session used within the window as it was, in the index and on
\* disk.
C28_CleanupExact ==
    [][(op' = "cleanup_old_sessions" /\ result'.raised = "None")
           => /\ \A i \in OldSessions(manager, args'.days, args'.now) : Deleted(i)
              /\ \A i \in DOMAIN manager \ OldSessions(manager, args'.days, args'.now) :
                     Untouched(i)
              /\ DOMAIN manager' \subseteq DOMAIN manager
              /\ result'.returned
                     = <<Cardinality(OldSessions(manager, args'.days, args'.now))>>]_vars

\* A cleanup has deleted a session and kept a favorite that was last used
\* before the window.
C28_Witness ==
    /\ op = "cleanup_old_sessions"
    /\ result.raised = "None"
    /\ result.returned = <<1>>
    /\ \E i \in DOMAIN manager :
           manager[i].favorite /\ manager[i].last_used < args.now - args.days

\* The sessions that the manager stores and that `list` shows under name:
\* those of sessions_index.json that have their file.
StoredAs(name) ==
    {i \in PersistedIds \cap FileIds : load_sessions_index(fs)[i].name = name}

\* C29: a session named N that was saved and not deleted can be run by
\* name: run_session(N) finds it instead of reporting that the session is
\* not found, whatever commands came between.
C29_SavedSessionRuns ==
    (op = "run_session" /\ StoredAs(args.session_name) # {})
        => result.returned[1] # <<SessionNotFound, UseList>>

----------------------------------------------------------------------------
(* The interactive menu (main.py)                                          *)
(*                                                                         *)
(* A label is the sequence of its characters, a character outside ASCII    *)
(* being named by its code point.                                          *)

\* base_options of get_menu_options, each option with its field (<<>> for
\* None).
base_options ==
    <<[option |->
           <<"U+1F464", " ", "D", "e", "f", "i", "n", "e", " ", "P", "e",
             "r", "s", "o", "n", "a">>,
       field |-> <<"persona">>],
      [option |->
           <<"U+1F4CB", " ", "S", "p", "e", "c", "i", "f", "y", " ", "t",
             "h", "e", " ", "T", "a", "s", "k">>,
       field |-> <<"task">>],
      [option |->
           <<"U+1F50D", " ", "P", "r", "o", "v", "i", "d", "e", " ", "C",
             "o", "n", "t", "e", "x", "t">>,
       field |-> <<"context">>],
      [option |->
           <<"U+1F4D0", " ", "D", "e", "f", "i", "n", "e", " ", "S", "c",
             "h", "e", "m", "a", "s">>,
       field |-> <<"schemas">>],
      [option |->
           <<"U+1F4A1", " ", "A", "d", "d", " ", "E", "x", "a", "m", "p",
             "l", "e", "s">>,
       field |-> <<"examples">>],
      [option |->
           <<"U+26A0", "U+FE0F", " ", " ", "S", "e", "t", " ", "C", "o",
             "n", "s", "t", "r", "a", "i", "n", "t", "s">>,
       field |-> <<"constraints">>],
      [option |->
           <<"U+2B50", " ", "R", "a", "t", "e", " ", "T", "h", "i", "s",
             " ", "S", "e", "s", "s", "i", "o", "n">>,
       field |-> <<>>],
      [option |->
           <<"U+2764", "U+FE0F", " ", " ", "T", "o", "g", "g", "l", "e",
             " ", "F", "a", "v", "o", "r", "i", "t", "e">>,
       field |-> <<>>],
      [option |->
           <<"U+1F4BE", " ", "S", "a", "v", "e", " ", "S", "e", "s", "s",
             "i", "o", "n", " ", "A", "s", ".", ".", ".">>,
       field |-> <<>>],
      [option |->
           <<"U+2728", " ", "G", "e", "n", "e", "r", "a", "t", "e", " ",
             "a", "n", "d", " ", "C", "o", "p", "y", " ", "P", "r", "o",
             "m", "p", "t", " ", "U+2728">>,
       field |-> <<>>],
      [option |->
           <<"U+1F6AA", " ", "E", "x", "i", "t">>,
       field |-> <<>>]>>

\* The if/elif chain of interactive_menu_with_data after the test for Exit:
\* the suffix that choice.endswith is asked for and the label that choice
\* is compared with, branch by branch.
choice_chain ==
    <<[suffix |->
           <<"D", "e", "f", "i", "n", "e", " ", "P", "e", "r", "s", "o",
             "n", "a">>,
       label |-> base_options[1].option],
      [suffix |->
           <<"S", "p", "e", "c", "i", "f", "y", " ", "t", "h", "e", " ",
             "T", "a", "s", "k">>,
       label |-> base_options[2].option],
      [suffix |->
           <<"P", "r", "o", "v", "i", "d", "e", " ", "C", "o", "n", "t",
             "e", "x", "t">>,
       label |-> base_options[3].option],
      [suffix |->
           <<"D", "e", "f", "i", "n", "e", " ", "S", "c", "h", "e", "m",
             "a", "s">>,
       label |-> base_options[4].option],
      [suffix |->
           <<"A", "d", "d", " ", "E", "x", "a", "m", "p", "l", "e", "s">>,
       label |-> base_options[5].option],
      [suffix |->
           <<"S", "e", "t", " ", "C", "o", "n", "s", "t", "r", "a", "i",
             "n", "t", "s">>,
       label |-> base_options[6].option],
      [suffix |->
           <<"R", "a", "t", "e", " ", "T", "h", "i", "s", " ", "S", "e",
             "s", "s", "i", "o", "n">>,
       label |-> base_options[7].option],
      [suffix |->
           <<"T", "o", "g", "g", "l", "e", " ", "F", "a", "v", "o", "r",
             "i", "t", "e">>,
       label |-> base_options[8].option],
      [suffix |->
           <<"S", "a", "v", "e", " ", "S", "e", "s", "s", "i", "o", "n",
             " ", "A", "s", ".", ".", ".">>,
       label |-> base_options[9].option],
      [suffix |->
           <<"G", "e", "n", "e", "r", "a", "t", "e", " ", "a", "n", "d",
             " ", "C", "o", "p", "y", " ", "P", "r", "o", "m", "p", "t",
             " ", "U+2728">>,
       label |-> base_options[10].option]>>

\* Lines 926-931 of get_menu_options: whether the field has content.
Completed(prompt_data, field) ==
    IF field \in {"schemas", "examples"} THEN prompt_data[field] # <<>>
    ELSE Truthy(prompt_data[field])

\* get_menu_options(prompt_data): the labels shown.  f"✅ {option[2:]}" is
\* the label of a completed step.
get_menu_options(prompt_data) ==
    [k \in 1..Len(base_options) |->
        IF base_options[k].field = <<>> THEN base_options[k].option
        ELSE IF Completed(prompt_data, base_options[k].field[1])
        THEN <<"U+2705", " ">> \o SubSeq(base_options[k].option, 3,
                                         Len(base_options[k].option))
        ELSE base_options[k].option]

\* Lines 949-955 of get_next_step_index: current_index, counted from 0, as
\* the loop from option k on finds it.
RECURSIVE CurrentIndex(_, _, _)
CurrentIndex(current_choice, options, k) ==
    IF k > Len(options) THEN -1
    ELSE IF options[k].field = <<>> THEN CurrentIndex(current_choice, options, k + 1)
    ELSE IF \/ EndsWith(current_choice,
                        SubSeq(options[k].option, 3, Len(options[k].option)))
            \/ current_choice = options[k].option
    THEN k - 1
    ELSE CurrentIndex(current_choice, options, k + 1)

\* The step after the current one, whichever that is.
NextStep_Mut(current_index, options) == current_index + 1

\* Lines 957-963 of get_next_step_index
NextStep(current_index, options) ==
    IF \E i \in current_index + 1..Len(options) - 1 : options[i + 1].field # <<>> /\ i < 6
    THEN Min({i \in current_index + 1..Len(options) - 1 :
                 options[i + 1].field # <<>> /\ i < 6})
    ELSE current_index

\* get_next_step_index(current_choice, base_options)
get_next_step_index(current_choice, options) ==
    NextStep(CurrentIndex(current_choice, options, 1), options)

\* The branch of the chain, from branch k on, that handles the choice; 0 if
\* none does.
RECURSIVE Branch(_, _)
Branch(choice, k) ==
    IF k > Len(choice_chain) THEN 0
    ELSE IF EndsWith(choice, choice_chain[k].suffix) \/ choice = choice_chain[k].label
    THEN k
    ELSE Branch(choice, k + 1)

\* handle_persona, handle_task, handle_context and handle_constraints set
\* their field to the text entered (the context to the text as processed);
\* handle_schemas and handle_examples append the text unless it is blank.
HandleStep(prompt_data, branch, text) ==
    IF branch = 1 THEN [prompt_data EXCEPT !.persona = <<text>>]
    ELSE IF branch = 2 THEN [prompt_data EXCEPT !.task = <<text>>]
    ELSE IF branch = 3 THEN [prompt_data EXCEPT !.context = <<text>>]
    ELSE IF branch = 4
    THEN IF Strip(text) # <<>> THEN [prompt_data EXCEPT !.schemas = Append(@, text)]
         ELSE prompt_data
    ELSE IF branch = 5
    THEN IF Strip(text) # <<>> THEN [prompt_data EXCEPT !.examples = Append(@, text)]
         ELSE prompt_data
    ELSE [prompt_data EXCEPT !.constraints = <<text>>]

\* break: the loop is left and the function returns; of its variables the
\* step index is kept for the properties, with the number of turns taken.
Break(r) ==
    [pc |-> "ended", current_step_index |-> r.current_step_index, turns |-> r.turns]

\* Lines 1097-1130 of interactive_menu_with_data: the branch taken for the
\* choice.
Handled(r, choice, branch, text) ==
    IF branch \in 1..6
    THEN [r EXCEPT !.prompt_data = HandleStep(@, branch, text),
                   !.current_step_index = get_next_step_index(choice, base_options)]
    ELSE IF branch = 10 THEN Break(r)
    ELSE r

\* One turn of the loop of interactive_menu_with_data: the choice made
\* (<<>> for None) is handled, text being what the user enters in a step.
interactive_menu_step(r, choice, text) ==
    IF choice = <<>> THEN Break(r)
    ELSE IF choice[1] = base_options[Len(base_options)].option THEN Break(r)
    ELSE Handled(r, choice[1], Branch(choice[1], 1), text)

\* Lines 794-797 of handle_save_session
AnyData(prompt_data) ==
    \/ Truthy(prompt_data.persona) \/ Truthy(prompt_data.task)
    \/ Truthy(prompt_data.context) \/ prompt_data.schemas # <<>>
    \/ prompt_data.examples # <<>> \/ Truthy(prompt_data.constraints)

\* The session directory after the turn: handle_rate_session and
\* handle_toggle_favorite act on the session of the menu, if it has one,
\* and handle_save_session saves under the name entered; each makes its own
\* manager.  rating is <<>> when no rating is selected.
MenuDisk(r, disk, choice, rating, session_name, overwrite, session_id, now) ==
    IF choice = <<>> THEN disk
    ELSE IF Branch(choice[1], 1) = 7 /\ r.session_id # <<>> /\ rating # <<>>
    THEN rate_session(NewSessionManager(disk, NoFailure, "none", 0),
                      r.session_id[1], rating[1], now).disk
    ELSE IF Branch(choice[1], 1) = 8 /\ r.session_id # <<>>
    THEN toggle_favorite(NewSessionManager(disk, NoFailure, "none", 0),
                         r.session_id[1], now).disk
    ELSE IF Branch(choice[1], 1) = 9 /\ AnyData(r.prompt_data) /\ Strip(session_name) # <<>>
    THEN handle_save_session(disk, NoFailure, Strip(session_name), overwrite,
                             "none", 0, session_id, now).disk
    ELSE disk

\* The clipboard after the turn: handle_generate_and_copy copies the prompt
\* unless it is empty or pyperclip fails.
MenuClipboard(r, clipboard, choice, copies) ==
    IF choice # <<>> /\ choice[1] # base_options[Len(base_options)].option
       /\ Branch(choice[1], 1) = 10 /\ copies
       /\ generate_prompt_string(r.prompt_data) # <<>>
    THEN <<generate_prompt_string(r.prompt_data)>>
    ELSE clipboard

MaxMenuItems == 1
MaxTurns == 3

\* datetime.now() while the menu runs: the day of the last use of a session,
\* the menu being left within the day.
Today(index) == {d \in Nows(index) : \A e \in Nows(index) : d <= e}

\* What the user enters in a step, and the name entered for a session.
EnteredTexts == {<<>>, <<"a">>}
EnteredNames == {<<>>, <<"a">>}

\* The menu of a new prompt, and the menus of the session s1 loaded from the
\* directory, with each of its sections filled or not.
NewMenu ==
    [pc |-> "menu", turns |-> 0, current_step_index |-> 0, session_id |-> <<>>,
     prompt_data |-> PromptData(<<>>, <<>>, <<>>, <<>>, <<>>, <<>>)]
LoadedPrompts ==
    {data \in [persona : {<<>>, <<<<"a">>>>}, task : {<<>>, <<<<"a">>>>},
               context : {<<>>, <<<<"a">>>>}, schemas : {<<>>, <<<<"a">>>>},
               examples : {<<>>, <<<<"a">>>>}, constraints : {<<>>, <<<<"a">>>>}] :
        AnyData(data)}
LoadedMenus ==
    {[pc |-> "menu", turns |-> 0, current_step_index |-> 0, session_id |-> <<"s1">>,
      prompt_data |-> data] : data \in LoadedPrompts}
NoSessions ==
    [index_file |-> <<>>, sessions |-> <<>>, legacy |-> {}, backup |-> {}, refused |-> 0]
LoadedSessions ==
    [index_file |-> <<IndexOf({"s1"}, [i \in {"s1"} |-> 0], [i \in {"s1"} |-> FALSE])>>,
     sessions |-> IndexOf({"s1"}, [i \in {"s1"} |-> 0], [i \in {"s1"} |-> FALSE]),
     legacy |-> {}, backup |-> {}, refused |-> 0]

InitMenu ==
    /\ \/ run = NewMenu /\ fs = NoSessions
       \/ run \in LoadedMenus /\ fs = LoadedSessions
    /\ manager = <<>>
    /\ result = <<>>
    /\ args = <<>>
    /\ cache = <<>>
    /\ op = "none"
    /\ NoChunkerCall
    /\ NoFilterCall

\* The turn of the menu loop in which the choice is made, one of at most
\* MaxTurns: its state after the turn, with the directory and the clipboard
\* it leaves.
Turned(choice, text, disk, clipboard) ==
    /\ run.turns < MaxTurns
    /\ run' = [interactive_menu_step(run, choice, text) EXCEPT !.turns = @ + 1]
    /\ fs' = disk
    /\ result' = clipboard
    /\ args' = [choice |-> choice]
    /\ op' = "interactive_menu"
    /\ UNCHANGED <<manager, cache>>
    /\ UNCHANGED <<path, content, readable, max_lines, chunks>>
    /\ UNCHANGED <<file_filter, fs_entry, verdict, detected>>

\* A turn in which one of the six steps is chosen
MenuStep ==
    /\ run.pc = "menu"
    /\ \E k \in 1..6, text \in EnteredTexts :
           /\ k = 4 /\ text # <<>> => Len(run.prompt_data.schemas) < MaxMenuItems
           /\ k = 5 /\ text # <<>> => Len(run.prompt_data.examples) < MaxMenuItems
           /\ Turned(<<get_menu_options(run.prompt_data)[k]>>, text, fs, result)

\* A turn in which Rate This Session or Toggle Favorite is chosen
MenuRate ==
    /\ run.pc = "menu"
    /\ \E k \in 7..8, rating \in {<<>>, <<5>>}, now \in Today(load_sessions_index(fs)) :
           /\ k = 8 => rating = <<>>
           /\ Turned(<<get_menu_options(run.prompt_data)[k]>>, <<>>,
                     MenuDisk(run, fs, <<get_menu_options(run.prompt_data)[k]>>, rating,
                              <<>>, FALSE, "none", now),
                     result)

\* A turn in which Save Session As... is chosen
MenuSave ==
    /\ run.pc = "menu"
    /\ \E session_name \in EnteredNames, overwrite \in BOOLEAN :
           \E now \in Today(load_sessions_index(fs)) :
               \E session_id \in FreshIds(<<>>, fs) \cup {"none"} :
                   /\ NamedSessions(load_sessions_index(fs), <<"a">>) = <<>>
                          <=> session_id # "none"
                   /\ Turned(<<get_menu_options(run.prompt_data)[9]>>, <<>>,
                             MenuDisk(run, fs, <<get_menu_options(run.prompt_data)[9]>>,
                                      <<>>, session_name, overwrite, session_id, now),
                             result)

\* A turn in which the user cancels or chooses Generate and Copy or Exit
MenuEnd ==
    /\ run.pc = "menu"
    /\ \E k \in {0, 10, 11}, copies \in BOOLEAN :
           \E choice \in {IF k = 0 THEN <<>> ELSE <<get_menu_options(run.prompt_data)[k]>>} :
               /\ k # 10 => copies
               /\ Turned(choice, <<>>, fs, MenuClipboard(run, result, choice, copies))

NextMenu ==
    \/ MenuStep
    \/ MenuRate
    \/ MenuSave
    \/ MenuEnd

SpecMenu == InitMenu /\ [][NextMenu]_vars

----------------------------------------------------------------------------
(* Properties of the interactive menu                                      *)

\* The label shown for option k (counted from 1) before the turn.
Shown(k) == <<get_menu_options(run.prompt_data)[k]>>

\* C30: in the menu loop the index of the default step is always one of the
\* six core steps 0..5, whatever is chosen and whatever of the prompt is
\* completed: it starts at 0, is min(i + 1, 5) after core step i (persona,
\* task, context, schemas, examples, constraints) is handled, and is left
\* as it is by Rate, Toggle Favorite and Save; the loop ends exactly when
\* the user cancels or chooses Exit or Generate and Copy.
C30_DefaultStep ==
    /\ run.current_step_index = 0
    /\ [](run.current_step_index \in 0..5)
    /\ [][op' = "interactive_menu"
             => /\ \A k \in 1..6 :
                       args'.choice = Shown(k) => run'.current_step_index = MinOf(k, 5)
                /\ \A k \in 7..9 :
                       args'.choice = Shown(k)
                           => run'.current_step_index = run.current_step_index
                /\ run'.pc = "ended"
                       <=> args'.choice \in {<<>>, Shown(10), Shown(11)}]_vars

\* Set Constraints, shown as completed, was chosen with the prompt partly
\* completed, and the default step is the last core step.
C30_Witness ==
    /\ op = "interactive_menu"
    /\ run.pc = "menu"
    /\ args.choice # <<>>
    /\ args.choice[1] = <<"U+2705", " ">> \o SubSeq(base_options[6].option, 3,
                                                    Len(base_options[6].option))
    /\ run.current_step_index = 5
    /\ Truthy(run.prompt_data.persona) /\ ~Truthy(run.prompt_data.task)

====
